---- MODULE Spec2Model ----
(***************************************************************************)
(* A model of extra200tomqtt.py: the serial acquisition loop with its      *)
(* failure counter, the decoding of the pwr and bat responses, the         *)
(* per-unit derating and alarm policy, and the fleet aggregation.          *)
(*                                                                         *)
(* Numbers.  The program computes in floating point and rounds to a fixed  *)
(* number of decimals; the model computes in integers of the rounded unit: *)
(*   currents of the Info block      mA   (7.0 A = 7000)                   *)
(*   cell voltages                   mV   (3.65 V = 3650)                  *)
(*   Dc.Voltage                      cV   (round(x / 1000, 2))             *)
(*   Dc.Current                      cA   (round(x / 1000, 2))             *)
(*   Dc.Temperature, cell temp.      d°C  (round(x / 1000, 1))            *)
(*   Dc.Power                        dW   (round(V * I, 1))                *)
(*   capacities                      dAh  (round(x / 1000, 1))             *)
(*   Info.MaxChargeVoltage           dV   (52.5 V = 525)                   *)
(* round(x, n) is RoundDiv: to the nearest, ties to the even neighbour.    *)
(* The sample values below stay off the exact ties and off the exact       *)
(* thresholds of differences (50 mV, 100 mV), where the binary             *)
(* representation of the operands decides the program's answer.            *)
(*                                                                         *)
(* A Python dict is a function whose DOMAIN is the set of its keys, so     *)
(* that `"Soc" in data` is "Soc" \in DOMAIN data.  The two dicts whose     *)
(* iteration order the program uses (Voltages, and the list of cell        *)
(* readings) are sequences of <<key, value>> pairs in insertion order.     *)
(* A cell key "CellN" (and the id "CN") is the integer N.                  *)
(***************************************************************************)
EXTENDS Integers, Sequences, FiniteSets, TLC

VARIABLES
    pc,                           \* position of main() / of the function applied
    consecutive_serial_failures,  \* the process-wide failure counter
    ser_open,                     \* ser.is_open
    attempt,                      \* `attempt` of the retry loop in progress
    address,                      \* index in BATTERY_ADDRESSES of the unit being polled
    MAX_CHARGE_CURRENT,           \* learned ceiling, mA
    MAX_DISCHARGE_CURRENT,        \* learned ceiling, mA
    global_info,                  \* dict: MaxChargeCurrent, MaxDischargeCurrent, CellCount
    MQTT_ACTIVE,                  \* config["mqtt"]["active"]
    data,                         \* the record parse_battery_data is building / returned
    battery_data_list,            \* the records of the cycle
    consolidated,                 \* the last consolidated record (None before the first)
    written,                      \* commands written on the link in this cycle
    published,                    \* messages handed to the sink in this cycle
    timeout_run,                  \* history: serial reads in a row that ended in a timeout
    stimulus                      \* what the units answer (the sampled call, the responses)

vars == <<pc, consecutive_serial_failures, ser_open, attempt, address,
          MAX_CHARGE_CURRENT, MAX_DISCHARGE_CURRENT, global_info, MQTT_ACTIVE,
          data, battery_data_list, consolidated, written, published,
          timeout_run, stimulus>>

----------------------------------------------------------------------------
(* Program constants and configuration *)

MAX_CONSECUTIVE_FAILURES == 10

\* config["battery"]["addresses"]: the units 1..NumAddresses
NumAddresses == 2
BATTERY_ADDRESSES == [i \in 1..NumAddresses |-> i]

\* config["battery"]["num_cells"]
NUM_CELLS == 2

\* config["battery"]["max_charge_voltage"] = 51.0 V, in dV
MAX_CHARGE_VOLTAGE == 510

\* config["battery"]["max_charge_current"] = 50.0 A, in mA
DEFAULT_MAX_CHARGE_CURRENT == 50000

\* config["battery"]["max_discharge_current"] = 50.0 A, in mA
DEFAULT_MAX_DISCHARGE_CURRENT == 50000

----------------------------------------------------------------------------
(* Python values *)

None == [IsNone |-> TRUE]

IsNone(x) == "IsNone" \in DOMAIN x

EmptyDict == [k \in {} |-> 0]

\* d[k] = v
Put(d, k, v) == [x \in (DOMAIN d) \cup {k} |-> IF x = k THEN v ELSE d[x]]

\* d.get(k, default)
Get(d, k, default) == IF k \in DOMAIN d THEN d[k] ELSE default

Min2(a, b) == IF a <= b THEN a ELSE b

Max2(a, b) == IF a >= b THEN a ELSE b

Abs(n) == IF n < 0 THEN -n ELSE n

\* round(n / d, ...) to the nearest integer of the target unit, ties to even (d > 0)
RoundDiv(n, d) ==
    LET q == n \div d
        r == n % d
    IN  IF 2 * r < d THEN q
        ELSE IF 2 * r > d THEN q + 1
        ELSE IF q % 2 = 0 THEN q ELSE q + 1

\* int(x): truncation towards zero of n / d (d > 0)
TruncDiv(n, d) == IF n >= 0 THEN n \div d ELSE -((-n) \div d)

\* a float that may be not-a-number: float("nan") parses, and propagates
FNum(n) == [nan |-> FALSE, v |-> n]

FNaN == [nan |-> TRUE, v |-> 0]

\* an insertion-ordered dict as a sequence of <<key, value>>: d[k] = v
RECURSIVE OPut(_, _, _)
OPut(d, k, v) ==
    IF d = <<>> THEN << <<k, v>> >>
    ELSE IF Head(d)[1] = k THEN << <<k, v>> >> \o Tail(d)
    ELSE << Head(d) >> \o OPut(Tail(d), k, v)

OKeys(d) == {d[i][1] : i \in DOMAIN d}

\* min(pairs, key=lambda x: x[1]): the first element with the least value
RECURSIVE MinBy(_)
MinBy(s) ==
    IF Len(s) = 1 THEN s[1]
    ELSE LET m == MinBy(SubSeq(s, 1, Len(s) - 1))
         IN  IF s[Len(s)][2] < m[2] THEN s[Len(s)] ELSE m

\* max(pairs, key=lambda x: x[1]): the first element with the greatest value
RECURSIVE MaxBy(_)
MaxBy(s) ==
    IF Len(s) = 1 THEN s[1]
    ELSE LET m == MaxBy(SubSeq(s, 1, Len(s) - 1))
         IN  IF s[Len(s)][2] > m[2] THEN s[Len(s)] ELSE m

----------------------------------------------------------------------------
(* Lines of a response.  A pwr or info line is [key, tok]: key is the text *)
(* before the first colon, stripped ("" for a line without a colon), tok   *)
(* the first whitespace token after it:                                    *)
(*   [t |-> "num", n |-> k]  a numeral (for a register: the hexadecimal    *)
(*                           numeral of k)                                 *)
(*   [t |-> "nan", n |-> 0]  the text nan: float() takes it, int() raises  *)
(*   [t |-> "on",  n |-> 0]  the text on                                   *)
(*   [t |-> "bad", n |-> 0]  no token, or text that float() and int()      *)
(*                           both refuse                                   *)
(* The model follows a not-a-number through the capacity fields only,      *)
(* where it matters to the control flow; the samples carry it on           *)
(* Total Coulomb alone.                                                    *)

Num(k) == [t |-> "num", n |-> k]

NanTok == [t |-> "nan", n |-> 0]

OnTok == [t |-> "on", n |-> 0]

BadTok == [t |-> "bad", n |-> 0]

Line(k, tok) == [key |-> k, tok |-> tok]

\* a line without a colon: the echo of the command, the prompt, "Command completed"
TextLine == Line("", BadTok)

----------------------------------------------------------------------------
(* Event tables *)

\* the keys of power_events_list (0x80000000 is beyond TLC's integers)
power_events_list ==
    {0, 1, 2, 4, 8, 16, 32, 64, 128, 256, 512, 1024, 2048, 4096, 8192, 16384,
     32768, 65536, 131072, 262144, 524288, 1048576, 2097152, 4194304, 8388608,
     16777216, 33554432, 67108864, 134217728, 268435456, 536870912, 1073741824}

\* power_events_list[e][0]
PowerEventClass(e) ==
    IF e \in {0, 4, 1024, 2097152, 4194304, 8388608} THEN "info" ELSE "warning"

\* the keys of sys_events_list
sys_events_list == {0, 1, 2, 4, 8, 16, 32, 64, 128, 256, 512, 1024, 2048}

\* sys_events_list[e][0]
SysEventClass(e) == IF e = 0 THEN "info" ELSE "warning"

----------------------------------------------------------------------------
(* parse_battery_data: the record and the pwr response *)

\* the ceilings parse_battery_data reads: global_info.get(..., MAX_..._CURRENT)
Limits(mcc, mdc, info) == [mcc |-> mcc, mdc |-> mdc, info |-> info]

NoAlarms ==
    [LowVoltage |-> 0, HighVoltage |-> 0, LowSoc |-> 0, HighChargeCurrent |-> 0,
     HighDischargeCurrent |-> 0, HighCurrent |-> 0, CellImbalance |-> 0,
     HighChargeTemperature |-> 0, LowChargeTemperature |-> 0, LowCellVoltage |-> 0,
     LowTemperature |-> 0, HighTemperature |-> 0, FuseBlown |-> 0]

AlarmNames == DOMAIN NoAlarms

\* the dict parse_battery_data starts from
InitialData(g) ==
    [Dc |-> EmptyDict,
     Alarms |-> NoAlarms,
     Info |-> [MaxChargeVoltage |-> MAX_CHARGE_VOLTAGE,
               MaxChargeCurrent |-> Get(g.info, "MaxChargeCurrent", g.mcc),
               MaxDischargeCurrent |-> Get(g.info, "MaxDischargeCurrent", g.mdc)],
     History |-> EmptyDict,
     System |-> [NrOfModulesOnline |-> 1, NrOfModulesOffline |-> 0,
                 NrOfCellsPerBattery |-> Get(g.info, "CellCount", NUM_CELLS),
                 NrOfModulesBlockingCharge |-> 0,
                 NrOfModulesBlockingDischarge |-> 0],
     Voltages |-> <<>>,
     Balances |-> EmptyDict,
     Io |-> [AllowToCharge |-> 1, AllowToDischarge |-> 1]]

\* what the loop over the pwr lines carries
PwrState(d) == [data |-> d, bat_events |-> 0, power_events |-> 0, sys_events |-> 0]

\* one pass of the loop body: a line that raises leaves everything as it was
PwrLine(st, line) ==
    LET k == line.key
        tok == line.tok
        d == st.data
        isnum == tok.t = "num"
    IN  IF k = "Voltage" /\ isnum
          THEN [st EXCEPT !.data.Dc = Put(@, "Voltage", RoundDiv(tok.n, 10))]
        ELSE IF k = "Current" /\ isnum
          THEN [st EXCEPT !.data.Dc = Put(@, "Current", RoundDiv(tok.n, 10))]
        ELSE IF k = "Temperature" /\ isnum
          THEN [st EXCEPT !.data.Dc = Put(@, "Temperature", RoundDiv(tok.n, 100)),
                          !.data.System = Put(@, "MOSTemperature", RoundDiv(tok.n, 100))]
        ELSE IF k = "Coulomb" /\ isnum
          THEN [st EXCEPT !.data = Put(@, "Soc", tok.n)]
        ELSE IF k = "Total Coulomb" /\ isnum
          THEN [st EXCEPT !.data = Put(@, "InstalledCapacity", FNum(RoundDiv(tok.n, 100)))]
        ELSE IF k = "Total Coulomb" /\ tok.t = "nan"
          THEN [st EXCEPT !.data = Put(@, "InstalledCapacity", FNaN)]
        ELSE IF k = "Heater Status" /\ tok.t # "bad"
          THEN [st EXCEPT !.data = Put(@, "Balancing", IF tok.t = "on" THEN 1 ELSE 0)]
        ELSE IF k = "Charge Times" /\ isnum
          THEN [st EXCEPT !.data.History = Put(@, "ChargeCycles", tok.n)]
        ELSE IF k = "Bat Events" /\ isnum
          THEN [st EXCEPT !.bat_events = tok.n]
        ELSE IF k = "Power Events" /\ isnum
          THEN [st EXCEPT !.power_events = tok.n]
        ELSE IF k = "System Fault" /\ isnum
          THEN [st EXCEPT !.sys_events = tok.n]
        ELSE st

\* for line in lines: ...
RECURSIVE DecodePwr(_, _)
DecodePwr(st, lines) ==
    IF lines = <<>> THEN st ELSE DecodePwr(PwrLine(st, Head(lines)), Tail(lines))

----------------------------------------------------------------------------
(* parse_battery_data: the policy applied to the decoded pwr fields *)

\* "Adjust MaxChargeVoltage based on SOC": 52.5 V below 95 %, else 51.0 V
ChargeVoltageSchedule(d) ==
    IF "Soc" \in DOMAIN d
      THEN [d EXCEPT !.Info.MaxChargeVoltage = IF d.Soc < 95 THEN 525 ELSE 510]
      ELSE d

\* ChargeCurrentBase with the 7.0 A already at 90 %: a fault the base rule has to
\* detect
ChargeCurrentBaseFromNinety(d, g) ==
    IF "Soc" \in DOMAIN d
      THEN [d EXCEPT !.Info.MaxChargeCurrent =
               IF d.Soc >= 90 THEN 7000
               ELSE 100 * RoundDiv(Get(g.info, "MaxChargeCurrent", g.mcc) * 8, 1000)]
      ELSE d

\* "Adjust MaxChargeCurrent based on SOC": 7.0 A above 90 %, else round(0.8 * ceiling, 1)
ChargeCurrentBase(d, g) ==
    IF "Soc" \in DOMAIN d
      THEN [d EXCEPT !.Info.MaxChargeCurrent =
               IF d.Soc > 90 THEN 7000
               ELSE 100 * RoundDiv(Get(g.info, "MaxChargeCurrent", g.mcc) * 8, 1000)]
      ELSE d

\* TemperatureClamp with the band 0 <= temp < 5 left out: a fault the
\* temperature property has to detect
TemperatureClampWithoutColdBand(d) ==
    IF "Temperature" \in DOMAIN d.Dc
      THEN LET temp == d.Dc.Temperature
           IN  IF temp < 0
                 THEN [d EXCEPT !.Io.AllowToCharge = 0,
                                !.Info.MaxChargeCurrent = 0,
                                !.Alarms.LowChargeTemperature = 1]
               ELSE IF temp > 450
                 THEN [d EXCEPT !.Info.MaxChargeCurrent = Min2(@, 10000),
                                !.Alarms.HighChargeTemperature = 1]
               ELSE d
      ELSE d

\* the clamp on Dc.Temperature (d°C): below 0, 0 to 5, above 45
TemperatureClamp(d) ==
    IF "Temperature" \in DOMAIN d.Dc
      THEN LET temp == d.Dc.Temperature
           IN  IF temp < 0
                 THEN [d EXCEPT !.Io.AllowToCharge = 0,
                                !.Info.MaxChargeCurrent = 0,
                                !.Alarms.LowChargeTemperature = 1]
               ELSE IF 0 <= temp /\ temp < 50
                 THEN [d EXCEPT !.Info.MaxChargeCurrent = Min2(@, 10000)]
               ELSE IF temp > 450
                 THEN [d EXCEPT !.Info.MaxChargeCurrent = Min2(@, 10000),
                                !.Alarms.HighChargeTemperature = 1]
               ELSE d
      ELSE d

\* DischargePolicy with the band 5 <= Soc < 10 left out: a fault the discharge
\* property has to detect
DischargePolicyWithoutLowBand(d) ==
    IF "Soc" \in DOMAIN d /\ d.Soc < 5
      THEN [d EXCEPT !.Io.AllowToDischarge = 0,
                     !.Info.MaxDischargeCurrent = 0,
                     !.Alarms.LowSoc = 1]
      ELSE d

\* "Limit discharge current and block discharge below 5% SOC"
DischargePolicy(d) ==
    IF "Soc" \in DOMAIN d
      THEN IF d.Soc < 5
             THEN [d EXCEPT !.Io.AllowToDischarge = 0,
                            !.Info.MaxDischargeCurrent = 0,
                            !.Alarms.LowSoc = 1]
           ELSE IF d.Soc < 10
             THEN [d EXCEPT !.Info.MaxDischargeCurrent = Min2(@, 10000),
                            !.Alarms.LowSoc = 1]
           ELSE d
      ELSE d

\* Power = round(Voltage * Current, 1)
DerivePower(d) ==
    IF "Current" \in DOMAIN d.Dc /\ "Voltage" \in DOMAIN d.Dc
      THEN [d EXCEPT !.Dc = Put(@, "Power", RoundDiv(d.Dc.Voltage * d.Dc.Current, 1000))]
      ELSE d

\* Capacity = round(Soc / 100 * InstalledCapacity, 1), ConsumedAmphours the rest
DeriveCapacity(d) ==
    IF "Soc" \in DOMAIN d /\ "InstalledCapacity" \in DOMAIN d
      THEN IF d.InstalledCapacity.nan
             THEN Put(Put(d, "Capacity", FNaN), "ConsumedAmphours", FNaN)
             ELSE LET cap == RoundDiv(d.Soc * d.InstalledCapacity.v, 100)
                  IN  Put(Put(d, "Capacity", FNum(cap)),
                          "ConsumedAmphours", FNum(d.InstalledCapacity.v - cap))
      ELSE d

\* TimeToGo = int(Capacity / abs(Current) * 3600) while discharging; int() of a
\* not-a-number raises, and the function's handler returns None
DeriveTimeToGo(d) ==
    IF "Capacity" \in DOMAIN d /\ "Current" \in DOMAIN d.Dc /\ d.Dc.Current < 0
      THEN IF d.Capacity.nan THEN None
           ELSE Put(d, "TimeToGo", TruncDiv(d.Capacity.v * 36000, Abs(d.Dc.Current)))
      ELSE d

\* "Set Alarms", Bat Events: a matched warning sets CellImbalance
BatEventAlarms(d, bat_events) ==
    IF bat_events # 0 /\ bat_events \in power_events_list
       /\ PowerEventClass(bat_events) = "warning"
      THEN [d EXCEPT !.Alarms.CellImbalance = 1]
      ELSE d

\* PowerEventAlarms taking a register by its bits, the lowest bit set deciding: a
\* fault the exact match has to detect
PowerEventAlarmsByBit(d, power_events) ==
    IF power_events % 4 # 0
      THEN [d EXCEPT !.Alarms.HighVoltage = 1]
    ELSE IF power_events % 16 # 0 /\ power_events % 8 = 0
      THEN [d EXCEPT !.Alarms.LowVoltage = 1]
    ELSE IF power_events = 32768
      THEN [d EXCEPT !.Alarms.LowSoc = 1]
    ELSE d

\* "Set Alarms", Power Events: the matched value assigns its alarm the severity
PowerEventAlarms(d, power_events) ==
    IF power_events # 0 /\ power_events \in power_events_list
      THEN LET severity == IF PowerEventClass(power_events) = "warning" THEN 1 ELSE 0
           IN  IF power_events \in {1, 2}
                 THEN [d EXCEPT !.Alarms.HighVoltage = severity]
               ELSE IF power_events = 8
                 THEN [d EXCEPT !.Alarms.LowVoltage = severity]
               ELSE IF power_events = 16
                 THEN [d EXCEPT !.Alarms.LowCellVoltage = severity]
               ELSE IF power_events \in {256, 512}
                 THEN [d EXCEPT !.Alarms.HighTemperature = severity]
               ELSE IF power_events \in {2048, 4096}
                 THEN [d EXCEPT !.Alarms.LowTemperature = severity]
               ELSE IF power_events = 32768
                 THEN [d EXCEPT !.Alarms.LowSoc = severity]
               ELSE IF power_events \in {131072, 524288}
                 THEN [d EXCEPT !.Alarms.HighDischargeCurrent = severity]
               ELSE IF power_events \in {262144, 1048576}
                 THEN [d EXCEPT !.Alarms.HighChargeCurrent = severity]
               ELSE IF power_events = 65536
                 THEN [d EXCEPT !.Alarms.FuseBlown = severity]
               ELSE d
      ELSE d

\* "Set Alarms", System Fault: a match accumulates into FuseBlown by max
SysEventAlarms(d, sys_events) ==
    IF sys_events # 0 /\ sys_events \in sys_events_list
      THEN LET severity == IF SysEventClass(sys_events) = "warning" THEN 1 ELSE 0
           IN  IF sys_events \in {1, 2, 4, 8, 16, 32, 64, 128, 256, 512, 1024, 2048}
                 THEN [d EXCEPT !.Alarms.FuseBlown = Max2(@, severity)]
                 ELSE d
      ELSE d

\* parse_battery_data from the pwr lines read (not empty) to the bat request:
\* the record so far, or None when the handler of the function caught a fault
PwrStage(lines, g) ==
    LET st == DecodePwr(PwrState(InitialData(g)), lines)
        d1 == ChargeVoltageSchedule(st.data)
        d2 == ChargeCurrentBase(d1, g)
        d3 == TemperatureClamp(d2)
        d4 == DischargePolicy(d3)
        d5 == DerivePower(d4)
        d6 == DeriveCapacity(d5)
        d7 == DeriveTimeToGo(d6)
    IN  IF IsNone(d7) THEN None
        ELSE SysEventAlarms(
                 PowerEventAlarms(BatEventAlarms(d7, st.bat_events), st.power_events),
                 st.sys_events)

----------------------------------------------------------------------------
(* parse_battery_data: the bat response *)

(* A bat line is [t, idx, mv, mC]: t = "cell" for a line that starts with  *)
(* a digit, has at least 10 tokens and parses (cell index idx, mv          *)
(* millivolts, mC thousandths of a degree); t = "skip" for every other     *)
(* line (the header, a short or malformed line), which the loop passes     *)
(* over.                                                                   *)
CellLine(idx, mv, mC) == [t |-> "cell", idx |-> idx, mv |-> mv, mC |-> mC]

SkipLine == [t |-> "skip", idx |-> 0, mv |-> 0, mC |-> 0]

\* what the loop over the bat lines carries
CellState(d) == [data |-> d, cell_voltages |-> <<>>, cell_temperatures |-> <<>>]

\* one pass of the loop body
BatLine(st, line) ==
    IF line.t = "cell"
      THEN LET cell_num == line.idx + 1
           IN  [data |-> [st.data EXCEPT !.Voltages = OPut(@, cell_num, line.mv)],
                cell_voltages |-> Append(st.cell_voltages, <<cell_num, line.mv>>),
                cell_temperatures |-> Append(st.cell_temperatures, <<cell_num, line.mC>>)]
      ELSE st

\* for line in lines: ...
RECURSIVE DecodeBat(_, _)
DecodeBat(st, lines) ==
    IF lines = <<>> THEN st ELSE DecodeBat(BatLine(st, Head(lines)), Tail(lines))

\* System: the unit's cell count and its extreme cell voltages
CellExtremes(d, min_cell, max_cell, num_cells) ==
    [d EXCEPT !.System =
        Put(Put(Put(Put(Put(@, "NrOfCellsPerBattery", num_cells),
            "MinVoltageCellId", min_cell[1]), "MinCellVoltage", min_cell[2]),
            "MaxVoltageCellId", max_cell[1]), "MaxCellVoltage", max_cell[2])]

\* "Cell voltage protection", charge side: a cell above 3.65 V
CellHighVoltageProtection(d, max_cell) ==
    IF max_cell[2] > 3650
      THEN [d EXCEPT !.Io.AllowToCharge = 0, !.Alarms.HighVoltage = 1]
      ELSE d

\* "Cell voltage protection", discharge side: a cell below 2.5 V
CellLowVoltageProtection(d, min_cell) ==
    IF min_cell[2] < 2500
      THEN [d EXCEPT !.Io.AllowToDischarge = 0, !.Alarms.LowCellVoltage = 1]
      ELSE d

\* "Balancing logic"
Balancing(d, min_cell, max_cell, num_cells) ==
    IF max_cell[2] - min_cell[2] > 50 /\ max_cell[2] > 3400
      THEN [d EXCEPT !.Balances = Put(@, max_cell[1], 1)]
      ELSE [d EXCEPT !.Balances =
               [c \in (DOMAIN @) \cup (1..num_cells) |-> IF c \in 1..num_cells THEN 0 ELSE @[c]]]

\* CellImbalance when the unit's spread exceeds 0.1 V
CellImbalanceAlarm(d, min_cell, max_cell) ==
    IF max_cell[2] - min_cell[2] > 100 THEN [d EXCEPT !.Alarms.CellImbalance = 1] ELSE d

\* the unit's extreme cell temperatures and their alarms
CellTemperatures(d, cell_temperatures) ==
    LET min_temp == MinBy(cell_temperatures)
        max_temp == MaxBy(cell_temperatures)
        d1 == [d EXCEPT !.System =
                  Put(Put(Put(Put(@, "MinTemperatureCellId", min_temp[1]),
                      "MinCellTemperature", RoundDiv(min_temp[2], 100)),
                      "MaxTemperatureCellId", max_temp[1]),
                      "MaxCellTemperature", RoundDiv(max_temp[2], 100))]
        d2 == IF min_temp[2] < 0 THEN [d1 EXCEPT !.Alarms.LowTemperature = 1] ELSE d1
    IN  IF max_temp[2] > 45000 THEN [d2 EXCEPT !.Alarms.HighTemperature = 1] ELSE d2

\* parse_battery_data from the bat lines read to its return
CellStage(d, lines) ==
    LET st == DecodeBat(CellState(d), lines)
    IN  IF st.cell_voltages # <<>>
          THEN LET num_cells == Len(st.cell_voltages)
                   min_cell == MinBy(st.cell_voltages)
                   max_cell == MaxBy(st.cell_voltages)
                   d1 == CellExtremes(st.data, min_cell, max_cell, num_cells)
                   d2 == CellHighVoltageProtection(d1, max_cell)
                   d3 == CellLowVoltageProtection(d2, min_cell)
                   d4 == Balancing(d3, min_cell, max_cell, num_cells)
                   d5 == CellImbalanceAlarm(d4, min_cell, max_cell)
               IN  CellTemperatures(d5, st.cell_temperatures)
          ELSE st.data

(* What the link did to one call of parse_battery_data:                    *)
(*   pwr_write  the pwr write succeeded        pwr_lines  the pwr lines read *)
(*   bat_write  the bat write succeeded        bat_lines  the bat lines read *)
Exchange(pw, pl, bw, bl) ==
    [pwr_write |-> pw, pwr_lines |-> pl, bat_write |-> bw, bat_lines |-> bl]

\* parse_battery_data(ser, address): the record, or None
parse_battery_data(x, g) ==
    IF ~x.pwr_write THEN None
    ELSE IF x.pwr_lines = <<>> THEN None
    ELSE LET d == PwrStage(x.pwr_lines, g)
         IN  IF IsNone(d) THEN None
             ELSE IF x.bat_write THEN CellStage(d, x.bat_lines)
             ELSE d

----------------------------------------------------------------------------
(* create_consolidated_view *)

\* what an exception that leaves a function looks like to its caller
Raised == [IsRaised |-> TRUE]

IsRaised(x) == "IsRaised" \in DOMAIN x

RECURSIVE SumSeq(_)
SumSeq(s) == IF s = <<>> THEN 0 ELSE Head(s) + SumSeq(Tail(s))

RECURSIVE MinSeq(_)
MinSeq(s) == IF Len(s) = 1 THEN s[1] ELSE Min2(Head(s), MinSeq(Tail(s)))

RECURSIVE Concat(_)
Concat(ss) == IF ss = <<>> THEN <<>> ELSE Head(ss) \o Concat(Tail(ss))

\* [data["Dc"].get(k, 0) for data in battery_data_list if k in data["Dc"]]
DcValues(list, k) ==
    LET kept == SelectSeq(list, LAMBDA d : k \in DOMAIN d.Dc)
    IN  [i \in 1..Len(kept) |-> kept[i].Dc[k]]

\* [data.get(k, 0) for data in battery_data_list if k in data]
TopValues(list, k) ==
    LET kept == SelectSeq(list, LAMBDA d : k \in DOMAIN d)
    IN  [i \in 1..Len(kept) |-> kept[i][k]]

\* [data["History"].get(k, 0) for data in battery_data_list if k in data["History"]]
HistoryValues(list, k) ==
    LET kept == SelectSeq(list, LAMBDA d : k \in DOMAIN d.History)
    IN  [i \in 1..Len(kept) |-> kept[i].History[k]]

\* the offline fallback record built in main()
offline_data(g) ==
    [Dc |-> EmptyDict,
     Alarms |-> [NoAlarms EXCEPT !.LowSoc = 1],
     Info |-> [MaxChargeVoltage |-> MAX_CHARGE_VOLTAGE,
               MaxChargeCurrent |-> 0,
               MaxDischargeCurrent |-> 0],
     History |-> EmptyDict,
     System |-> [NrOfModulesOnline |-> 0, NrOfModulesOffline |-> 1,
                 NrOfCellsPerBattery |-> Get(g.info, "CellCount", NUM_CELLS),
                 NrOfModulesBlockingCharge |-> 1,
                 NrOfModulesBlockingDischarge |-> 1],
     Voltages |-> <<>>,
     Balances |-> EmptyDict,
     Io |-> [AllowToCharge |-> 0, AllowToDischarge |-> 0]]

\* AggregateAlarms keeping the last record's flags instead of the greatest: a
\* fault the flag property has to detect
AggregateAlarmsOfLast(acc, list) ==
    IF list = <<>> THEN acc ELSE list[Len(list)].Alarms

\* "Aggregate alarms and Io states": for data in battery_data_list, max of each alarm
RECURSIVE AggregateAlarms(_, _)
AggregateAlarms(acc, list) ==
    IF list = <<>> THEN acc
    ELSE AggregateAlarms([a \in AlarmNames |-> Max2(acc[a], Head(list).Alarms[a])],
                         Tail(list))

\* "Aggregate alarms and Io states": for data in battery_data_list, min of each Io flag
RECURSIVE AggregateIo(_, _)
AggregateIo(acc, list) ==
    IF list = <<>> THEN acc
    ELSE AggregateIo(
             [AllowToCharge |-> Min2(acc.AllowToCharge, Head(list).Io.AllowToCharge),
              AllowToDischarge |-> Min2(acc.AllowToDischarge, Head(list).Io.AllowToDischarge)],
             Tail(list))

\* the header of the consolidated dict, with the blocking counts
AggregateSystem(list, g) ==
    [NrOfModulesOnline |-> Len(list),
     NrOfModulesOffline |-> Len(BATTERY_ADDRESSES) - Len(list),
     NrOfCellsPerBattery |-> Get(g.info, "CellCount", NUM_CELLS),
     NrOfModulesBlockingCharge |->
        Cardinality({i \in DOMAIN list : list[i].Io.AllowToCharge = 0}),
     NrOfModulesBlockingDischarge |->
        Cardinality({i \in DOMAIN list : list[i].Io.AllowToDischarge = 0})]

\* the keys the per-cell tables are created with: Cell1 .. Cell<CellCount>
KnownCells(g) == 1..Get(g.info, "CellCount", NUM_CELLS)

\* cell_voltages[cell].append / cell_balances[cell].append raise KeyError
\* for a key that is not one of the known cells
UnknownCellKey(list, g) ==
    \E i \in DOMAIN list :
        \/ \E c \in OKeys(list[i].Voltages) : c \notin KnownCells(g)
        \/ \E c \in DOMAIN list[i].Balances : c \notin KnownCells(g)

\* cell_voltages[cell] after the collection loop
VoltagesOfCell(list, c) ==
    Concat([i \in 1..Len(list) |->
        LET v == list[i].Voltages
            hit == SelectSeq(v, LAMBDA kv : kv[1] = c)
        IN  [j \in 1..Len(hit) |-> hit[j][2]]])

\* consolidated["Voltages"]: the mean of each cell some unit reports
AggregateVoltages(list, g) ==
    LET cells == {c \in KnownCells(g) : VoltagesOfCell(list, c) # <<>>}
    IN  [c \in cells |->
            RoundDiv(SumSeq(VoltagesOfCell(list, c)), Len(VoltagesOfCell(list, c)))]

\* consolidated["Balances"]: any unit balancing the cell
AggregateBalances(list, g) ==
    LET cells == {c \in KnownCells(g) : VoltagesOfCell(list, c) # <<>>}
    IN  [c \in cells |->
            IF \E i \in DOMAIN list :
                   c \in DOMAIN list[i].Balances /\ list[i].Balances[c] = 1
              THEN 1 ELSE 0]

\* all_voltages: every unit's (cell, voltage) in order
AllVoltages(list) == Concat([i \in 1..Len(list) |-> list[i].Voltages])

\* FleetCellExtremes taking the first reading for both extremes: a fault the
\* extremes property has to detect
FleetCellExtremesOfFirst(c, list) ==
    LET all_voltages == AllVoltages(list)
    IN  IF all_voltages # <<>>
          THEN LET first == Head(all_voltages)
               IN  [c EXCEPT !.System =
                       Put(Put(Put(Put(@, "MinVoltageCellId", first[1]),
                           "MinCellVoltage", first[2]),
                           "MaxVoltageCellId", first[1]),
                           "MaxCellVoltage", first[2])]
          ELSE c

\* "Calculate system-level min/max voltages"
FleetCellExtremes(c, list) ==
    LET all_voltages == AllVoltages(list)
    IN  IF all_voltages # <<>>
          THEN LET min_cell == MinBy(all_voltages)
                   max_cell == MaxBy(all_voltages)
                   c1 == [c EXCEPT !.System =
                             Put(Put(Put(Put(@, "MinVoltageCellId", min_cell[1]),
                                 "MinCellVoltage", min_cell[2]),
                                 "MaxVoltageCellId", max_cell[1]),
                                 "MaxCellVoltage", max_cell[2])]
               IN  IF max_cell[2] - min_cell[2] > 100
                     THEN [c1 EXCEPT !.Alarms.CellImbalance = 1]
                     ELSE c1
          ELSE c

\* sums and means of the Dc block, over the units that report the field
AggregateDc(list) ==
    LET voltages == DcValues(list, "Voltage")
        currents == DcValues(list, "Current")
        powers == DcValues(list, "Power")
        temperatures == DcValues(list, "Temperature")
        dc1 == IF voltages # <<>>
                 THEN Put(EmptyDict, "Voltage", RoundDiv(SumSeq(voltages), Len(voltages)))
                 ELSE EmptyDict
        dc2 == IF currents # <<>> THEN Put(dc1, "Current", SumSeq(currents)) ELSE dc1
        dc3 == IF powers # <<>> THEN Put(dc2, "Power", SumSeq(powers)) ELSE dc2
    IN  IF temperatures # <<>>
          THEN Put(dc3, "Temperature", RoundDiv(SumSeq(temperatures), Len(temperatures)))
          ELSE dc3

\* sum of floats, a not-a-number among them making the sum one
FSum(s) ==
    IF \E i \in DOMAIN s : s[i].nan THEN FNaN
    ELSE FNum(SumSeq([i \in DOMAIN s |-> s[i].v]))

\* Soc (mean), the capacities (sums) and ChargeCycles (mean)
AggregateCapacity(c, list) ==
    LET socs == TopValues(list, "Soc")
        installed == TopValues(list, "InstalledCapacity")
        capacities == TopValues(list, "Capacity")
        consumed == TopValues(list, "ConsumedAmphours")
        cycles == HistoryValues(list, "ChargeCycles")
        c1 == IF socs # <<>> THEN Put(c, "Soc", RoundDiv(SumSeq(socs), Len(socs))) ELSE c
        c2 == IF installed # <<>> THEN Put(c1, "InstalledCapacity", FSum(installed)) ELSE c1
        c3 == IF capacities # <<>> THEN Put(c2, "Capacity", FSum(capacities)) ELSE c2
        c4 == IF consumed # <<>> THEN Put(c3, "ConsumedAmphours", FSum(consumed)) ELSE c3
    IN  IF cycles # <<>>
          THEN [c4 EXCEPT !.History =
                   Put(@, "ChargeCycles", RoundDiv(SumSeq(cycles), Len(cycles)))]
          ELSE c4

\* FleetLimit without the scaling by the number of records: a fault the limit
\* property has to detect
FleetLimitUnscaled(limits, n) == 100 * RoundDiv(MinSeq(limits), 100)

\* round(min(per-unit limit) * len(battery_data_list), 1), in mA
FleetLimit(limits, n) == 100 * RoundDiv(MinSeq(limits) * n, 100)

\* Info: the least MaxChargeVoltage, and the fleet current limits
AggregateInfo(list) ==
    [MaxChargeVoltage |-> MinSeq([i \in DOMAIN list |-> list[i].Info.MaxChargeVoltage]),
     MaxChargeCurrent |->
         FleetLimit([i \in DOMAIN list |-> list[i].Info.MaxChargeCurrent], Len(list)),
     MaxDischargeCurrent |->
         FleetLimit([i \in DOMAIN list |-> list[i].Info.MaxDischargeCurrent], Len(list))]

\* TimeToGo of the fleet: int() of a not-a-number raises
FleetTimeToGo(c) ==
    IF "Capacity" \in DOMAIN c /\ "Current" \in DOMAIN c.Dc /\ c.Dc.Current < 0
      THEN IF c.Capacity.nan THEN Raised
           ELSE Put(c, "TimeToGo", TruncDiv(c.Capacity.v * 36000, Abs(c.Dc.Current)))
      ELSE c

\* create_consolidated_view(battery_data_list): the consolidated record, None for
\* an empty list, Raised when an exception leaves the function
create_consolidated_view(list, g) ==
    IF list = <<>> THEN None
    ELSE IF UnknownCellKey(list, g) THEN Raised
    ELSE LET c0 == [Dc |-> AggregateDc(list),
                    Alarms |-> AggregateAlarms(NoAlarms, list),
                    Info |-> AggregateInfo(list),
                    History |-> EmptyDict,
                    System |-> AggregateSystem(list, g),
                    Voltages |-> AggregateVoltages(list, g),
                    Balances |-> AggregateBalances(list, g),
                    Io |-> AggregateIo([AllowToCharge |-> 1, AllowToDischarge |-> 1], list)]
             c1 == FleetCellExtremes(c0, list)
             c2 == IF "Temperature" \in DOMAIN c1.Dc
                     THEN [c1 EXCEPT !.System = Put(@, "MOSTemperature", c1.Dc.Temperature)]
                     ELSE c1
         IN  FleetTimeToGo(AggregateCapacity(c2, list))

----------------------------------------------------------------------------
(* Sample responses of the units *)

Missing == [t |-> "missing", n |-> 0]

\* the line of a field, none for a field the response leaves out
FieldLine(k, tok) == IF tok.t = "missing" THEN <<>> ELSE << Line(k, tok) >>

\* a pwr response: the echo, the fields the unit reports, "Command completed"
PwrResponse(volt, cur, temp, soc, tc, pev) ==
    << TextLine >>
    \o FieldLine("Voltage", volt) \o FieldLine("Current", cur)
    \o FieldLine("Temperature", temp) \o FieldLine("Coulomb", soc)
    \o FieldLine("Total Coulomb", tc) \o FieldLine("Power Events", pev)
    \o << TextLine >>

SocSamples == {Missing, Num(3), Num(5), Num(9), Num(10), Num(90), Num(95)}

TemperatureSamples ==
    {Missing, Num(-1000), Num(-40), Num(2000), Num(5000), Num(45000), Num(50000)}

\* Voltage, Current, Total Coulomb
DcSamples ==
    { <<Num(51200), Num(-5000), Num(100000)>>,
      <<Num(51200), Num(-5000), NanTok>>,
      <<Missing, Missing, Missing>> }

PowerEventSamples == {Num(0), Num(2), Num(3), Num(32768)}

PwrSamples ==
    { PwrResponse(dc[1], dc[2], temp, soc, dc[3], pev) :
        dc \in DcSamples, temp \in TemperatureSamples,
        soc \in SocSamples, pev \in PowerEventSamples }

CellVoltageSamples == {2400, 3300, 3420, 3500, 3700}

\* a bat response: the header, one line per cell reported, "Command completed"
BatResponse(cells) == << SkipLine >> \o cells \o << SkipLine >>

BatSamples ==
    { BatResponse(<< CellLine(0, v0, 20000), CellLine(1, v1, 25000) >>) :
        v0 \in CellVoltageSamples, v1 \in CellVoltageSamples }
    \cup { BatResponse(<< CellLine(0, v0, 20000) >>) : v0 \in CellVoltageSamples }
    \cup { BatResponse(<< CellLine(0, 3300, -2000), SkipLine, CellLine(2, 3320, 47000) >>),
           BatResponse(<< CellLine(1, 3300, 20000), CellLine(1, 3700, 20000) >>),
           BatResponse(<<>>),
           <<>> }

\* the ceilings a run can have learned: the configured defaults, or less
LimitSamples ==
    { Limits(DEFAULT_MAX_CHARGE_CURRENT, DEFAULT_MAX_DISCHARGE_CURRENT, EmptyDict),
      Limits(12345, 12345,
             [MaxChargeCurrent |-> 12345, MaxDischargeCurrent |-> 12345, CellCount |-> 2]),
      Limits(5000, 8000, [MaxChargeCurrent |-> 5000, MaxDischargeCurrent |-> 8000]) }

\* what the link did on the pwr side of a call: the write failed, the read
\* returned nothing, or a response was read
PwrChoices ==
    { [write |-> TRUE, lines |-> pl] : pl \in PwrSamples }
    \cup { [write |-> TRUE, lines |-> <<>>], [write |-> FALSE, lines |-> <<>>] }

\* what the link did on the bat side of a call
BatChoices ==
    { [write |-> TRUE, lines |-> bl] : bl \in BatSamples }
    \cup { [write |-> FALSE, lines |-> <<>>] }

----------------------------------------------------------------------------
(* SpecUnit: parse_battery_data applied to every sample call *)

InitUnit ==
    /\ pc = "unit_call"
    /\ \E p \in PwrChoices, b \in BatChoices, g \in LimitSamples :
          stimulus = [x |-> Exchange(p.write, p.lines, b.write, b.lines), g |-> g]
    /\ data = None
    /\ consecutive_serial_failures = 0
    /\ ser_open = TRUE
    /\ attempt = 0
    /\ address = 1
    /\ MAX_CHARGE_CURRENT = stimulus.g.mcc
    /\ MAX_DISCHARGE_CURRENT = stimulus.g.mdc
    /\ global_info = stimulus.g.info
    /\ MQTT_ACTIVE = TRUE
    /\ battery_data_list = <<>>
    /\ consolidated = None
    /\ written = <<>>
    /\ published = <<>>
    /\ timeout_run = 0

\* one pass of main's `for address in BATTERY_ADDRESSES` over the sampled call:
\* data = parse_battery_data(ser, address), then the record, or the offline
\* record in its place, is appended to battery_data_list and published
UnitCall ==
    /\ pc = "unit_call"
    /\ LET d == parse_battery_data(stimulus.x,
                    Limits(MAX_CHARGE_CURRENT, MAX_DISCHARGE_CURRENT, global_info))
           rec == IF IsNone(d)
                    THEN offline_data(Limits(MAX_CHARGE_CURRENT, MAX_DISCHARGE_CURRENT,
                                             global_info))
                    ELSE d
       IN  /\ data' = d
           /\ battery_data_list' = Append(battery_data_list, rec)
           /\ \E ok \in BOOLEAN :
                 published' = Append(published,
                     [topic |-> <<"battery", BATTERY_ADDRESSES[address]>>,
                      payload |-> rec, ok |-> ok])
    /\ pc' = "unit_return"
    /\ UNCHANGED <<consecutive_serial_failures, ser_open, attempt, address,
                   MAX_CHARGE_CURRENT, MAX_DISCHARGE_CURRENT, global_info, MQTT_ACTIVE,
                   consolidated, written, timeout_run, stimulus>>

NextUnit == UnitCall

SpecUnit == InitUnit /\ [][NextUnit]_vars

----------------------------------------------------------------------------
(* SpecEvents: parse_battery_data applied to calls whose pwr response has   *)
(* the three registers Bat Events, Power Events and System Fault            *)

\* a pwr response with the registers: the echo, Temperature, Coulomb, the
\* registers the unit reports, "Command completed"
EventPwrResponse(temp, soc, bev, pev, sev) ==
    << TextLine >>
    \o FieldLine("Temperature", temp) \o FieldLine("Coulomb", soc)
    \o FieldLine("Bat Events", bev) \o FieldLine("Power Events", pev)
    \o FieldLine("System Fault", sev)
    \o << TextLine >>

\* values of Bat Events: none, in the table as info and as warning, two bits
BatEventSamples == {Missing, Num(0), Num(2), Num(3), Num(4)}

\* values of Power Events: every value the code maps to an alarm, values of the
\* table it maps to none, values of two bits and a value beyond the table
PowerEventRegisterSamples ==
    { Num(e) : e \in {0, 1, 2, 3, 4, 6, 8, 16, 24, 32, 256, 512, 2048, 4096, 32768,
                      32769, 65536, 131072, 262144, 524288, 1048576, 3145728} }

\* values of System Fault: none, in the table, two bits, beyond the table
SysEventSamples == {Missing, Num(0), Num(1), Num(3), Num(2048), Num(4096)}

EventPwrSamples ==
    { EventPwrResponse(temp, soc, bev, pev, sev) :
        temp \in {Num(-1000), Num(20000)}, soc \in {Num(3), Num(50)},
        bev \in BatEventSamples, pev \in PowerEventRegisterSamples,
        sev \in SysEventSamples }

\* bat responses that set each alarm of the cell policy, and the call without one
EventBatChoices ==
    { [write |-> TRUE, lines |-> BatResponse(cells)] :
        cells \in { << CellLine(0, 3300, 20000), CellLine(1, 3300, 25000) >>,
                    << CellLine(0, 3700, -2000), CellLine(1, 3300, 25000) >>,
                    << CellLine(0, 2400, 20000), CellLine(1, 3300, 47000) >> } }
    \cup { [write |-> FALSE, lines |-> <<>>] }

InitEvents ==
    /\ pc = "unit_call"
    /\ \E pl \in EventPwrSamples, b \in EventBatChoices :
          stimulus = [x |-> Exchange(TRUE, pl, b.write, b.lines),
                      g |-> Limits(DEFAULT_MAX_CHARGE_CURRENT,
                                   DEFAULT_MAX_DISCHARGE_CURRENT, EmptyDict)]
    /\ data = None
    /\ consecutive_serial_failures = 0
    /\ ser_open = TRUE
    /\ attempt = 0
    /\ address = 1
    /\ MAX_CHARGE_CURRENT = stimulus.g.mcc
    /\ MAX_DISCHARGE_CURRENT = stimulus.g.mdc
    /\ global_info = stimulus.g.info
    /\ MQTT_ACTIVE = TRUE
    /\ battery_data_list = <<>>
    /\ consolidated = None
    /\ written = <<>>
    /\ published = <<>>
    /\ timeout_run = 0

SpecEvents == InitEvents /\ [][NextUnit]_vars

----------------------------------------------------------------------------
(* The link: what a read can return *)

(* serial_read collects from the line with the start marker to the line    *)
(* with the stop marker.  resp is that stretch of what the unit sends.     *)
(*   ok       the stop marker arrived: all of resp, counter reset          *)
(*   timeout  the time ran out first: the lines collected so far, none or  *)
(*            some, the stop line not among them                           *)
(*   exc      the port raised: the empty list                              *)
ReadOutcomes(resp) ==
    { [kind |-> "ok", lines |-> resp] }
    \cup { [kind |-> "timeout", lines |-> SubSeq(resp, 1, k)] : k \in 0..(Len(resp) - 1) }
    \cup { [kind |-> "exc", lines |-> <<>>] }

\* consecutive_serial_failures after serial_read returns
CounterAfterRead(kind, n) == IF kind = "ok" THEN 0 ELSE n + 1

\* history: the run of reads that ended in a timeout, counted up to the threshold
RunAfterRead(kind, n) ==
    IF kind = "timeout" THEN Min2(n + 1, MAX_CONSECUTIVE_FAILURES) ELSE 0

\* retries of serial_write
WRITE_RETRIES == 2

\* max_attempts of initialize_serial
INIT_ATTEMPTS == 3

\* an info response: the echo, the fields, "Command completed"
InfoResponse(mcc, mdc, cells) ==
    << TextLine >>
    \o FieldLine("Max Charge Curr", mcc) \o FieldLine("Max Dischg Curr", mdc)
    \o FieldLine("Cell Count", cells)
    \o << TextLine >>

\* InfoLine taking what the unit reports as it is, without the min() against the
\* ceiling in force: a fault the bound on the learned limits has to detect
InfoLineAssigning(st, line) ==
    LET k == line.key
        tok == line.tok
    IN  IF k = "Max Charge Curr" /\ tok.t = "num"
          THEN [st EXCEPT !.mcc = tok.n, !.info = Put(@, "MaxChargeCurrent", tok.n)]
        ELSE IF k = "Max Dischg Curr" /\ tok.t = "num"
          THEN [st EXCEPT !.mdc = Abs(tok.n),
                          !.info = Put(@, "MaxDischargeCurrent", Abs(tok.n))]
        ELSE IF k = "Cell Count" /\ tok.t = "num"
          THEN [st EXCEPT !.info = Put(@, "CellCount", tok.n)]
        ELSE st

\* get_max_currents: one pass of the loop over the info lines; st = <<mcc, mdc, info>>
InfoLine(st, line) ==
    LET k == line.key
        tok == line.tok
    IN  IF k = "Max Charge Curr" /\ tok.t \in {"num", "nan"}
          THEN LET m == IF tok.t = "num" THEN Min2(st.mcc, tok.n) ELSE st.mcc
               IN  [st EXCEPT !.mcc = m, !.info = Put(@, "MaxChargeCurrent", m)]
        ELSE IF k = "Max Dischg Curr" /\ tok.t \in {"num", "nan"}
          THEN LET m == IF tok.t = "num" THEN Min2(st.mdc, Abs(tok.n)) ELSE st.mdc
               IN  [st EXCEPT !.mdc = m, !.info = Put(@, "MaxDischargeCurrent", m)]
        ELSE IF k = "Cell Count" /\ tok.t = "num"
          THEN [st EXCEPT !.info = Put(@, "CellCount", tok.n)]
        ELSE st

\* for line in lines: ...
RECURSIVE DecodeInfo(_, _)
DecodeInfo(st, lines) ==
    IF lines = <<>> THEN st ELSE DecodeInfo(InfoLine(st, Head(lines)), Tail(lines))

----------------------------------------------------------------------------
(* main(): start-up *)

\* the ceilings in force
CurrentLimits == Limits(MAX_CHARGE_CURRENT, MAX_DISCHARGE_CURRENT, global_info)

\* the state main() starts in; env is what the units can answer:
\* [info, pwr, bat], each a set of responses
InitMain(env) ==
    /\ pc = "initialize_serial"
    /\ stimulus = env
    /\ consecutive_serial_failures = 0
    /\ ser_open = FALSE
    /\ attempt = 0
    /\ address = 1
    /\ MAX_CHARGE_CURRENT = DEFAULT_MAX_CHARGE_CURRENT
    /\ MAX_DISCHARGE_CURRENT = DEFAULT_MAX_DISCHARGE_CURRENT
    /\ global_info = EmptyDict
    /\ MQTT_ACTIVE \in BOOLEAN
    /\ data = None
    /\ battery_data_list = <<>>
    /\ consolidated = None
    /\ written = <<>>
    /\ published = <<>>
    /\ timeout_run = 0

\* initialize_serial: an attempt that succeeds
InitializeSerialOk ==
    /\ pc = "initialize_serial"
    /\ consecutive_serial_failures' = 0
    /\ ser_open' = TRUE
    /\ attempt' = 0
    /\ address' = 1
    /\ pc' = "get_max_currents"
    /\ UNCHANGED <<MAX_CHARGE_CURRENT, MAX_DISCHARGE_CURRENT, global_info, MQTT_ACTIVE,
                   data, battery_data_list, consolidated, written, published,
                   timeout_run, stimulus>>

\* InitializeSerialFail with a fourth attempt: a fault the bound on the attempts
\* has to detect
InitializeSerialFailFourth ==
    /\ pc = "initialize_serial"
    /\ consecutive_serial_failures' = consecutive_serial_failures + 1
    /\ IF attempt = INIT_ATTEMPTS
         THEN pc' = "exit_init" /\ attempt' = attempt
         ELSE pc' = pc /\ attempt' = attempt + 1
    /\ UNCHANGED <<ser_open, address, MAX_CHARGE_CURRENT, MAX_DISCHARGE_CURRENT,
                   global_info, MQTT_ACTIVE, data, battery_data_list, consolidated,
                   written, published, timeout_run, stimulus>>

\* initialize_serial: an attempt that raises; the last one returns None and main exits
InitializeSerialFail ==
    /\ pc = "initialize_serial"
    /\ consecutive_serial_failures' = consecutive_serial_failures + 1
    /\ IF attempt = INIT_ATTEMPTS - 1
         THEN pc' = "exit_init" /\ attempt' = attempt
         ELSE pc' = pc /\ attempt' = attempt + 1
    /\ UNCHANGED <<ser_open, address, MAX_CHARGE_CURRENT, MAX_DISCHARGE_CURRENT,
                   global_info, MQTT_ACTIVE, data, battery_data_list, consolidated,
                   written, published, timeout_run, stimulus>>

\* where main goes after get_max_currents(ser, BATTERY_ADDRESSES[address]) returned
AfterInfo ==
    IF address = NumAddresses
      THEN pc' = "loop" /\ address' = 1
      ELSE pc' = "get_max_currents" /\ address' = address + 1

\* get_max_currents for an address other than 1: returns at once
InfoSkip ==
    /\ pc = "get_max_currents"
    /\ BATTERY_ADDRESSES[address] # 1
    /\ AfterInfo
    /\ UNCHANGED <<consecutive_serial_failures, ser_open, attempt, MAX_CHARGE_CURRENT,
                   MAX_DISCHARGE_CURRENT, global_info, MQTT_ACTIVE, data,
                   battery_data_list, consolidated, written, published, timeout_run,
                   stimulus>>

\* get_max_currents for address 1: serial_write("info 1"), an attempt that succeeds
InfoWriteOk ==
    /\ pc = "get_max_currents"
    /\ BATTERY_ADDRESSES[address] = 1
    /\ consecutive_serial_failures' = 0
    /\ ser_open' = TRUE
    /\ written' = Append(written, <<"info", BATTERY_ADDRESSES[address]>>)
    /\ attempt' = 0
    /\ pc' = "info_read"
    /\ UNCHANGED <<address, MAX_CHARGE_CURRENT, MAX_DISCHARGE_CURRENT, global_info,
                   MQTT_ACTIVE, data, battery_data_list, consolidated, published,
                   timeout_run, stimulus>>

\* serial_write("info 1"), an attempt that raises; after the last, get_max_currents
\* returns None
InfoWriteFail ==
    /\ pc = "get_max_currents"
    /\ BATTERY_ADDRESSES[address] = 1
    /\ consecutive_serial_failures' = consecutive_serial_failures + 1
    /\ IF attempt = WRITE_RETRIES - 1
         THEN attempt' = 0 /\ AfterInfo
         ELSE attempt' = attempt + 1 /\ pc' = pc /\ address' = address
    /\ UNCHANGED <<ser_open, MAX_CHARGE_CURRENT, MAX_DISCHARGE_CURRENT, global_info,
                   MQTT_ACTIVE, data, battery_data_list, consolidated, written,
                   published, timeout_run, stimulus>>

\* serial_read of the info response, and the loop over its lines
InfoRead ==
    /\ pc = "info_read"
    /\ \E resp \in stimulus.info : \E r \in ReadOutcomes(resp) :
          LET st == DecodeInfo(CurrentLimits, r.lines)
          IN  /\ consecutive_serial_failures' =
                     CounterAfterRead(r.kind, consecutive_serial_failures)
              /\ timeout_run' = RunAfterRead(r.kind, timeout_run)
              /\ MAX_CHARGE_CURRENT' = st.mcc
              /\ MAX_DISCHARGE_CURRENT' = st.mdc
              /\ global_info' = st.info
    /\ AfterInfo
    /\ UNCHANGED <<ser_open, attempt, MQTT_ACTIVE, data, battery_data_list,
                   consolidated, written, published, stimulus>>

----------------------------------------------------------------------------
(* main(): the polling loop *)

\* the check at the top of a cycle finds the counter at the threshold:
\* close the port, sys.exit(1)
ThresholdExit ==
    /\ pc = "loop"
    /\ consecutive_serial_failures >= MAX_CONSECUTIVE_FAILURES
    /\ ser_open' = FALSE
    /\ pc' = "exit_threshold"
    /\ UNCHANGED <<consecutive_serial_failures, attempt, address, MAX_CHARGE_CURRENT,
                   MAX_DISCHARGE_CURRENT, global_info, MQTT_ACTIVE, data,
                   battery_data_list, consolidated, written, published, timeout_run,
                   stimulus>>

\* StartCycle without the check of the counter: a fault the threshold property
\* has to detect
StartCycleUnchecked ==
    /\ pc = "loop"
    /\ battery_data_list' = <<>>
    /\ data' = None
    /\ consolidated' = None
    /\ written' = <<>>
    /\ published' = <<>>
    /\ address' = 1
    /\ attempt' = 0
    /\ pc' = "pwr_write"
    /\ UNCHANGED <<consecutive_serial_failures, ser_open, MAX_CHARGE_CURRENT,
                   MAX_DISCHARGE_CURRENT, global_info, MQTT_ACTIVE, timeout_run,
                   stimulus>>

\* the check passes: battery_data_list = [], and the first address is polled
StartCycle ==
    /\ pc = "loop"
    /\ consecutive_serial_failures < MAX_CONSECUTIVE_FAILURES
    /\ battery_data_list' = <<>>
    /\ data' = None
    /\ consolidated' = None
    /\ written' = <<>>
    /\ published' = <<>>
    /\ address' = 1
    /\ attempt' = 0
    /\ pc' = "pwr_write"
    /\ UNCHANGED <<consecutive_serial_failures, ser_open, MAX_CHARGE_CURRENT,
                   MAX_DISCHARGE_CURRENT, global_info, MQTT_ACTIVE, timeout_run,
                   stimulus>>

\* parse_battery_data: serial_write("pwr <address>"), an attempt that succeeds
PwrWriteOk ==
    /\ pc = "pwr_write"
    /\ consecutive_serial_failures' = 0
    /\ ser_open' = TRUE
    /\ written' = Append(written, <<"pwr", BATTERY_ADDRESSES[address]>>)
    /\ attempt' = 0
    /\ pc' = "pwr_read"
    /\ UNCHANGED <<address, MAX_CHARGE_CURRENT, MAX_DISCHARGE_CURRENT, global_info,
                   MQTT_ACTIVE, data, battery_data_list, consolidated, published,
                   timeout_run, stimulus>>

\* PwrWriteFail going on to the bat request when the pwr request could not be
\* written: a fault the order of the commands has to detect
PwrWriteFailThenBat ==
    /\ pc = "pwr_write"
    /\ consecutive_serial_failures' = consecutive_serial_failures + 1
    /\ IF attempt = WRITE_RETRIES - 1
         THEN attempt' = 0 /\ data' = InitialData(CurrentLimits) /\ pc' = "bat_write"
         ELSE attempt' = attempt + 1 /\ data' = data /\ pc' = pc
    /\ UNCHANGED <<ser_open, address, MAX_CHARGE_CURRENT, MAX_DISCHARGE_CURRENT,
                   global_info, MQTT_ACTIVE, battery_data_list, consolidated, written,
                   published, timeout_run, stimulus>>

\* serial_write("pwr <address>"), an attempt that raises; after the last,
\* parse_battery_data returns None
PwrWriteFail ==
    /\ pc = "pwr_write"
    /\ consecutive_serial_failures' = consecutive_serial_failures + 1
    /\ IF attempt = WRITE_RETRIES - 1
         THEN attempt' = 0 /\ data' = None /\ pc' = "unit_done"
         ELSE attempt' = attempt + 1 /\ data' = data /\ pc' = pc
    /\ UNCHANGED <<ser_open, address, MAX_CHARGE_CURRENT, MAX_DISCHARGE_CURRENT,
                   global_info, MQTT_ACTIVE, battery_data_list, consolidated, written,
                   published, timeout_run, stimulus>>

\* serial_read of the pwr response, then the decoding and the policy up to the
\* bat request; no lines, or a fault caught by the function's handler, return None
PwrRead ==
    /\ pc = "pwr_read"
    /\ \E resp \in stimulus.pwr : \E r \in ReadOutcomes(resp) :
          /\ consecutive_serial_failures' =
                 CounterAfterRead(r.kind, consecutive_serial_failures)
          /\ timeout_run' = RunAfterRead(r.kind, timeout_run)
          /\ data' = IF r.lines = <<>> THEN None ELSE PwrStage(r.lines, CurrentLimits)
    /\ pc' = IF IsNone(data') THEN "unit_done" ELSE "bat_write"
    /\ UNCHANGED <<ser_open, attempt, address, MAX_CHARGE_CURRENT,
                   MAX_DISCHARGE_CURRENT, global_info, MQTT_ACTIVE, battery_data_list,
                   consolidated, written, published, stimulus>>

\* BatWriteOk without the reset of the counter: a fault the bound on the counter
\* has to detect
BatWriteOkKeepingCounter ==
    /\ pc = "bat_write"
    /\ consecutive_serial_failures' = consecutive_serial_failures
    /\ ser_open' = TRUE
    /\ written' = Append(written, <<"bat", BATTERY_ADDRESSES[address]>>)
    /\ attempt' = 0
    /\ pc' = "bat_read"
    /\ UNCHANGED <<address, MAX_CHARGE_CURRENT, MAX_DISCHARGE_CURRENT, global_info,
                   MQTT_ACTIVE, data, battery_data_list, consolidated, published,
                   timeout_run, stimulus>>

\* serial_write("bat <address>"), an attempt that succeeds
BatWriteOk ==
    /\ pc = "bat_write"
    /\ consecutive_serial_failures' = 0
    /\ ser_open' = TRUE
    /\ written' = Append(written, <<"bat", BATTERY_ADDRESSES[address]>>)
    /\ attempt' = 0
    /\ pc' = "bat_read"
    /\ UNCHANGED <<address, MAX_CHARGE_CURRENT, MAX_DISCHARGE_CURRENT, global_info,
                   MQTT_ACTIVE, data, battery_data_list, consolidated, published,
                   timeout_run, stimulus>>

\* serial_write("bat <address>"), an attempt that raises; after the last, the
\* record is returned without cell data
BatWriteFail ==
    /\ pc = "bat_write"
    /\ consecutive_serial_failures' = consecutive_serial_failures + 1
    /\ IF attempt = WRITE_RETRIES - 1
         THEN attempt' = 0 /\ pc' = "unit_done"
         ELSE attempt' = attempt + 1 /\ pc' = pc
    /\ UNCHANGED <<ser_open, address, MAX_CHARGE_CURRENT, MAX_DISCHARGE_CURRENT,
                   global_info, MQTT_ACTIVE, data, battery_data_list, consolidated,
                   written, published, timeout_run, stimulus>>

\* serial_read of the bat response, then the cell loop and the cell policy
BatRead ==
    /\ pc = "bat_read"
    /\ \E resp \in stimulus.bat : \E r \in ReadOutcomes(resp) :
          /\ consecutive_serial_failures' =
                 CounterAfterRead(r.kind, consecutive_serial_failures)
          /\ timeout_run' = RunAfterRead(r.kind, timeout_run)
          /\ data' = CellStage(data, r.lines)
    /\ pc' = "unit_done"
    /\ UNCHANGED <<ser_open, attempt, address, MAX_CHARGE_CURRENT,
                   MAX_DISCHARGE_CURRENT, global_info, MQTT_ACTIVE, battery_data_list,
                   consolidated, written, published, stimulus>>

\* a message handed to mqtt_publish: the unit's address (or "pylon") and the record;
\* ok is whether the sink took it, which the program logs and forgets
Message(topic, payload, ok) == [topic |-> topic, payload |-> payload, ok |-> ok]

\* main, after parse_battery_data returned: the record, or the offline record in
\* its place, is appended to battery_data_list and published
UnitDone ==
    /\ pc = "unit_done"
    /\ LET rec == IF IsNone(data) THEN offline_data(CurrentLimits) ELSE data
       IN  /\ battery_data_list' = Append(battery_data_list, rec)
           /\ IF MQTT_ACTIVE
                THEN \E ok \in BOOLEAN :
                        published' = Append(published,
                            Message(<<"battery", BATTERY_ADDRESSES[address]>>, rec, ok))
                ELSE published' = published
    /\ IF address = NumAddresses
         THEN pc' = "consolidate" /\ address' = address
         ELSE pc' = "pwr_write" /\ address' = address + 1
    /\ attempt' = 0
    /\ UNCHANGED <<consecutive_serial_failures, ser_open, MAX_CHARGE_CURRENT,
                   MAX_DISCHARGE_CURRENT, global_info, MQTT_ACTIVE, data, consolidated,
                   written, timeout_run, stimulus>>

\* the end of the cycle with publishing on: the consolidated record is built and
\* published; an exception raised by create_consolidated_view is caught nowhere
Consolidate ==
    /\ pc = "consolidate"
    /\ battery_data_list # <<>> /\ MQTT_ACTIVE
    /\ LET c == create_consolidated_view(battery_data_list, CurrentLimits)
       IN  IF IsRaised(c)
             THEN pc' = "crashed" /\ consolidated' = consolidated
                  /\ published' = published
             ELSE /\ pc' = "loop"
                  /\ consolidated' = c
                  /\ \E ok \in BOOLEAN :
                        published' = Append(published, Message(<<"pylon", 0>>, c, ok))
    /\ UNCHANGED <<consecutive_serial_failures, ser_open, attempt, address,
                   MAX_CHARGE_CURRENT, MAX_DISCHARGE_CURRENT, global_info, MQTT_ACTIVE,
                   data, battery_data_list, written, timeout_run, stimulus>>

\* the end of the cycle with publishing off
SkipConsolidate ==
    /\ pc = "consolidate"
    /\ ~(battery_data_list # <<>> /\ MQTT_ACTIVE)
    /\ pc' = "loop"
    /\ UNCHANGED <<consecutive_serial_failures, ser_open, attempt, address,
                   MAX_CHARGE_CURRENT, MAX_DISCHARGE_CURRENT, global_info, MQTT_ACTIVE,
                   data, battery_data_list, consolidated, written, published,
                   timeout_run, stimulus>>

LoopPositions ==
    {"loop", "pwr_write", "pwr_read", "bat_write", "bat_read", "unit_done", "consolidate"}

\* KeyboardInterrupt inside the loop: close the port, sys.exit(0)
Interrupt ==
    /\ pc \in LoopPositions
    /\ ser_open' = FALSE
    /\ pc' = "exit_interrupt"
    /\ UNCHANGED <<consecutive_serial_failures, attempt, address, MAX_CHARGE_CURRENT,
                   MAX_DISCHARGE_CURRENT, global_info, MQTT_ACTIVE, data,
                   battery_data_list, consolidated, written, published, timeout_run,
                   stimulus>>

Terminated == pc \in {"exit_init", "exit_threshold", "exit_interrupt", "crashed"}

Next ==
    \/ InitializeSerialOk
    \/ InitializeSerialFail
    \/ InfoSkip
    \/ InfoWriteOk
    \/ InfoWriteFail
    \/ InfoRead
    \/ ThresholdExit
    \/ StartCycle
    \/ PwrWriteOk
    \/ PwrWriteFail
    \/ PwrRead
    \/ BatWriteOk
    \/ BatWriteFail
    \/ BatRead
    \/ UnitDone
    \/ Consolidate
    \/ SkipConsolidate
    \/ Interrupt

----------------------------------------------------------------------------
(* What the units answer in the runs of main() *)

InfoSamples ==
    { InfoResponse(Num(12345), Num(-12345), Num(2)),
      InfoResponse(Num(60000), Missing, Missing) }

MainPwrSamples ==
    { PwrResponse(Missing, Num(-5000), Missing, Num(50), Num(100000), Missing),
      PwrResponse(Missing, Num(-5000), Missing, Num(50), NanTok, Missing) }

MainBatSamples ==
    { BatResponse(<< CellLine(0, 3300, 20000) >>),
      BatResponse(<< CellLine(NUM_CELLS, 3300, 20000) >>) }

MainEnv == [info |-> InfoSamples, pwr |-> MainPwrSamples, bat |-> MainBatSamples]

Init == InitMain(MainEnv)

Spec == Init /\ [][Next]_vars

\* the least the units can answer: the echo and "Command completed", no fields
LinkEnv ==
    [info |-> { InfoResponse(Num(12345), Missing, Missing) },
     pwr |-> { << TextLine, TextLine >> },
     bat |-> { BatResponse(<<>>) }]

InitLink == InitMain(LinkEnv)

\* main() over units that answer with empty responses: the link and its counter
SpecLink == InitLink /\ [][Next]_vars

\* the loop is one thread that never waits for ever: every read ends by its
\* timeout at the latest, so a step that can be taken is taken
SpecLinkFair == SpecLink /\ WF_vars(Next)

\* every sampled info response at start-up, and units that answer the polling
\* with empty responses
InfoEnv == [info |-> InfoSamples, pwr |-> LinkEnv.pwr, bat |-> LinkEnv.bat]

InitInfo == InitMain(InfoEnv)

\* main() with the limits learned from the sampled info responses
SpecInfo == InitInfo /\ [][Next]_vars

\* the steps of main() in the runs in which every serial_write succeeds on its
\* first attempt.  ThresholdExit is not among them: in these runs its guard,
\* the counter at MAX_CONSECUTIVE_FAILURES at the check, never holds.
NextWritesOk ==
    \/ InitializeSerialOk
    \/ InitializeSerialFail
    \/ InfoSkip
    \/ InfoWriteOk
    \/ InfoRead
    \/ StartCycle
    \/ PwrWriteOk
    \/ PwrRead
    \/ BatWriteOk
    \/ BatRead
    \/ UnitDone
    \/ Consolidate
    \/ SkipConsolidate
    \/ Interrupt

SpecWritesOk == InitLink /\ [][NextWritesOk]_vars

----------------------------------------------------------------------------
(* SpecFleet: one cycle's records, each built by parse_battery_data or the   *)
(* offline record in its place, and create_consolidated_view applied to them *)

FleetPwrSamples ==
    { PwrResponse(Num(51200), Num(-5000), Num(20000), Num(50), Num(100000), Num(0)),
      PwrResponse(Num(51200), Num(-5000), Num(-1000), Num(3), Num(100000), Num(2)),
      PwrResponse(Missing, Missing, Num(50000), Num(95), Missing, Num(32768)),
      PwrResponse(Num(51200), Num(3000), Missing, Num(50), NanTok, Missing),
      PwrResponse(Missing, Missing, Missing, Missing, Missing, Missing) }

FleetBatChoices ==
    { [write |-> TRUE, lines |-> BatResponse(<< CellLine(0, c[1], 20000),
                                                CellLine(1, c[2], 25000) >>)] :
        c \in { <<3300, 3300>>, <<3420, 3420>>, <<3300, 3500>>,
                <<2400, 3300>>, <<3700, 3420>> } }
    \cup { [write |-> TRUE, lines |-> BatResponse(<< CellLine(NUM_CELLS, 3320, 20000) >>)],
           [write |-> FALSE, lines |-> <<>>] }

FleetLimitSamples ==
    { Limits(DEFAULT_MAX_CHARGE_CURRENT, DEFAULT_MAX_DISCHARGE_CURRENT, EmptyDict),
      Limits(12345, 12345,
             [MaxChargeCurrent |-> 12345, MaxDischargeCurrent |-> 12345,
              CellCount |-> NUM_CELLS]) }

FleetPwrChoices ==
    { [write |-> TRUE, lines |-> pl] : pl \in FleetPwrSamples }
    \cup { [write |-> FALSE, lines |-> <<>>] }

InitFleet ==
    /\ pc = "fleet_poll"
    /\ \E g \in FleetLimitSamples :
          /\ MAX_CHARGE_CURRENT = g.mcc
          /\ MAX_DISCHARGE_CURRENT = g.mdc
          /\ global_info = g.info
    /\ stimulus = None
    /\ data = None
    /\ consecutive_serial_failures = 0
    /\ ser_open = TRUE
    /\ attempt = 0
    /\ address = 1
    /\ MQTT_ACTIVE = TRUE
    /\ battery_data_list = <<>>
    /\ consolidated = None
    /\ written = <<>>
    /\ published = <<>>
    /\ timeout_run = 0

\* main, one pass of `for address in BATTERY_ADDRESSES`: the unit's record, or
\* the offline record in its place, is appended
FleetPoll ==
    /\ pc = "fleet_poll"
    /\ \E p \in FleetPwrChoices, b \in FleetBatChoices :
          LET d == parse_battery_data(Exchange(p.write, p.lines, b.write, b.lines),
                                      CurrentLimits)
          IN  /\ data' = d
              /\ battery_data_list' = Append(battery_data_list,
                     IF IsNone(d) THEN offline_data(CurrentLimits) ELSE d)
    /\ IF address = NumAddresses
         THEN pc' = "fleet_consolidate" /\ address' = address
         ELSE pc' = pc /\ address' = address + 1
    /\ UNCHANGED <<consecutive_serial_failures, ser_open, attempt, MAX_CHARGE_CURRENT,
                   MAX_DISCHARGE_CURRENT, global_info, MQTT_ACTIVE, consolidated,
                   written, published, timeout_run, stimulus>>

\* consolidated_data = create_consolidated_view(battery_data_list)
FleetConsolidate ==
    /\ pc = "fleet_consolidate"
    /\ LET c == create_consolidated_view(battery_data_list, CurrentLimits)
       IN  IF IsRaised(c)
             THEN pc' = "crashed" /\ consolidated' = consolidated
             ELSE pc' = "fleet_done" /\ consolidated' = c
    /\ UNCHANGED <<consecutive_serial_failures, ser_open, attempt, address,
                   MAX_CHARGE_CURRENT, MAX_DISCHARGE_CURRENT, global_info, MQTT_ACTIVE,
                   data, battery_data_list, written, published, timeout_run, stimulus>>

NextFleet == FleetPoll \/ FleetConsolidate

SpecFleet == InitFleet /\ [][NextFleet]_vars

----------------------------------------------------------------------------
(* SpecSerial: one call of initialize_serial, serial_write or serial_read,  *)
(* entered with the failure counter at a sampled value.                     *)
(*                                                                          *)
(* serial_read takes the port byte by byte.  A byte is a one-character      *)
(* string, a line the sequence of its bytes with the "\n" that ends it, a   *)
(* marker a sequence of bytes, `marker in line_str` the search for it in    *)
(* the line.  The frame of the call (line_str, line_str_array, start, and   *)
(* pos, the number of bytes taken from the port) is kept in data, what the  *)
(* call returned in consolidated, and pc tells the return statement taken.  *)

NL == "\n"

\* the value of start that serial_read takes for "collect from the first line"
NoneMarker == <<"n", "o", "n", "e">>

\* the value serial_read gives to start once the collection has begun
TrueMarker == <<"t", "r", "u", "e">>

\* the markers of the sampled calls, for the echo of the request and for
\* "Command completed"
EchoMarker == <<"s">>

CompletedMarker == <<"e">>

\* marker in line_str
Contains(marker, line_str) ==
    \E i \in 1..(Len(line_str) - Len(marker) + 1) :
        SubSeq(line_str, i, i + Len(marker) - 1) = marker

\* the lines a unit sends: plain, with the start marker, with the stop marker,
\* with both
LineSamples == { <<"x", NL>>, <<"s", NL>>, <<"e", NL>>, <<"s", "e", NL>> }

\* the most lines on the wire during one read
MaxLines == 4

\* the counter on entry of the call
CounterSamples == {0, 1, 4}

\* serial_read: a line that ended at its "\n": start, line_str_array, and whether
\* the call returns on it
CompleteLineIgnoringStart(start, line_str_array, line_str, stop) ==
    LET started == IF start = NoneMarker \/ Contains(start, line_str)
                     THEN TrueMarker ELSE start
        lines == IF started = TrueMarker
                   THEN Append(line_str_array, line_str) ELSE line_str_array
    IN  [start |-> started, line_str_array |-> lines,
         done |-> Contains(stop, line_str)]

CompleteLine(start, line_str_array, line_str, stop) ==
    LET started == IF start = NoneMarker \/ Contains(start, line_str)
                     THEN TrueMarker ELSE start
        lines == IF started = TrueMarker
                   THEN Append(line_str_array, line_str) ELSE line_str_array
    IN  [start |-> started, line_str_array |-> lines,
         done |-> started = TrueMarker /\ Contains(stop, line_str)]

\* serial_read: what the call returns when its time has run out
TimeoutResultWithPartialLine(frame) ==
    IF frame.line_str = <<>> THEN frame.line_str_array
    ELSE Append(frame.line_str_array, frame.line_str)

TimeoutResult(frame) == frame.line_str_array

\* serial_write, an attempt that raised: the counter after it
CountFailedAttemptOncePerCall(n, k, retries) == IF k = retries - 1 THEN n + 1 ELSE n

CountFailedAttempt(n, k, retries) == n + 1

\* the counter after an attempt or a read that succeeded
KeepOnSuccess(n) == n

ResetOnSuccess(n) == 0

InitSerial ==
    /\ pc \in {"initialize_serial", "serial_write", "serial_read"}
    /\ \E n \in CounterSamples :
         \/ /\ pc \in {"initialize_serial", "serial_write"}
            /\ stimulus = [before |-> n, start |-> NoneMarker,
                           stop |-> CompletedMarker, wire |-> <<>>]
         \/ /\ pc = "serial_read"
            /\ \E k \in 0..MaxLines : \E ls \in [1..k -> LineSamples] :
               \E start \in {NoneMarker, EchoMarker} :
                  stimulus = [before |-> n, start |-> start,
                              stop |-> CompletedMarker, wire |-> Concat(ls)]
    /\ consecutive_serial_failures = stimulus.before
    /\ data = [line_str |-> <<>>, line_str_array |-> <<>>,
               start |-> stimulus.start, pos |-> 0]
    /\ ser_open \in BOOLEAN
    /\ attempt = 0
    /\ address = 1
    /\ MAX_CHARGE_CURRENT = DEFAULT_MAX_CHARGE_CURRENT
    /\ MAX_DISCHARGE_CURRENT = DEFAULT_MAX_DISCHARGE_CURRENT
    /\ global_info = EmptyDict
    /\ MQTT_ACTIVE = TRUE
    /\ battery_data_list = <<>>
    /\ consolidated = None
    /\ written = <<>>
    /\ published = <<>>
    /\ timeout_run = 0

\* initialize_serial: an attempt that reaches `return ser`
SerialInitOk ==
    /\ pc = "initialize_serial"
    /\ consecutive_serial_failures' = ResetOnSuccess(consecutive_serial_failures)
    /\ ser_open' = TRUE
    /\ consolidated' = [ok |-> TRUE]
    /\ pc' = "return_ser"
    /\ UNCHANGED <<attempt, address, MAX_CHARGE_CURRENT, MAX_DISCHARGE_CURRENT,
                   global_info, MQTT_ACTIVE, data, battery_data_list, written,
                   published, timeout_run, stimulus>>

\* initialize_serial: an attempt that raises; after the last, `return None`
SerialInitFail ==
    /\ pc = "initialize_serial"
    /\ consecutive_serial_failures' = consecutive_serial_failures + 1
    /\ IF attempt = INIT_ATTEMPTS - 1
         THEN pc' = "return_none" /\ attempt' = attempt
                /\ consolidated' = [ok |-> FALSE]
         ELSE pc' = pc /\ attempt' = attempt + 1 /\ consolidated' = consolidated
    /\ UNCHANGED <<ser_open, address, MAX_CHARGE_CURRENT, MAX_DISCHARGE_CURRENT,
                   global_info, MQTT_ACTIVE, data, battery_data_list, written,
                   published, timeout_run, stimulus>>

\* serial_write: an attempt that reaches `return True`
SerialWriteOk ==
    /\ pc = "serial_write"
    /\ consecutive_serial_failures' = ResetOnSuccess(consecutive_serial_failures)
    /\ ser_open' = TRUE
    /\ written' = Append(written, <<"req", attempt>>)
    /\ consolidated' = [ok |-> TRUE]
    /\ pc' = "return_true"
    /\ UNCHANGED <<attempt, address, MAX_CHARGE_CURRENT, MAX_DISCHARGE_CURRENT,
                   global_info, MQTT_ACTIVE, data, battery_data_list, published,
                   timeout_run, stimulus>>

\* serial_write: an attempt that raises; after the last, `return False`
SerialWriteFail ==
    /\ pc = "serial_write"
    /\ consecutive_serial_failures' =
          CountFailedAttempt(consecutive_serial_failures, attempt, WRITE_RETRIES)
    /\ IF attempt = WRITE_RETRIES - 1
         THEN pc' = "return_false" /\ attempt' = attempt
                /\ consolidated' = [ok |-> FALSE]
         ELSE pc' = pc /\ attempt' = attempt + 1 /\ consolidated' = consolidated
    /\ UNCHANGED <<ser_open, address, MAX_CHARGE_CURRENT, MAX_DISCHARGE_CURRENT,
                   global_info, MQTT_ACTIVE, data, battery_data_list, written,
                   published, timeout_run, stimulus>>

\* serial_read: one pass of `while True` that finds a byte waiting
SerialReadByte ==
    /\ pc = "serial_read"
    /\ data.pos < Len(stimulus.wire)
    /\ LET line == stimulus.wire[data.pos + 1]
           line_str == Append(data.line_str, line)
           after == CompleteLine(data.start, data.line_str_array, line_str,
                                 stimulus.stop)
       IN  IF line # NL
             THEN /\ data' = [data EXCEPT !.line_str = line_str, !.pos = @ + 1]
                  /\ UNCHANGED <<pc, consecutive_serial_failures, consolidated>>
             ELSE /\ data' = [line_str |-> IF after.done THEN line_str ELSE <<>>,
                              line_str_array |-> after.line_str_array,
                              start |-> after.start,
                              pos |-> data.pos + 1]
                  /\ IF after.done
                       THEN /\ consecutive_serial_failures' =
                                  ResetOnSuccess(consecutive_serial_failures)
                            /\ consolidated' = after.line_str_array
                            /\ pc' = "return_stop"
                       ELSE UNCHANGED <<pc, consecutive_serial_failures, consolidated>>
    /\ UNCHANGED <<ser_open, attempt, address, MAX_CHARGE_CURRENT,
                   MAX_DISCHARGE_CURRENT, global_info, MQTT_ACTIVE, battery_data_list,
                   written, published, timeout_run, stimulus>>

\* serial_read: the pass that finds the time elapsed
SerialReadTimeout ==
    /\ pc = "serial_read"
    /\ consecutive_serial_failures' = consecutive_serial_failures + 1
    /\ consolidated' = TimeoutResult(data)
    /\ pc' = "return_timeout"
    /\ UNCHANGED <<ser_open, attempt, address, MAX_CHARGE_CURRENT,
                   MAX_DISCHARGE_CURRENT, global_info, MQTT_ACTIVE, data,
                   battery_data_list, written, published, timeout_run, stimulus>>

\* serial_read: the port raises
SerialReadError ==
    /\ pc = "serial_read"
    /\ consecutive_serial_failures' = consecutive_serial_failures + 1
    /\ consolidated' = <<>>
    /\ pc' = "return_error"
    /\ UNCHANGED <<ser_open, attempt, address, MAX_CHARGE_CURRENT,
                   MAX_DISCHARGE_CURRENT, global_info, MQTT_ACTIVE, data,
                   battery_data_list, written, published, timeout_run, stimulus>>

NextSerial ==
    \/ SerialInitOk
    \/ SerialInitFail
    \/ SerialWriteOk
    \/ SerialWriteFail
    \/ SerialReadByte
    \/ SerialReadTimeout
    \/ SerialReadError

SpecSerial == InitSerial /\ [][NextSerial]_vars

----------------------------------------------------------------------------
(* Properties of the link and of the polling loop, on main()                *)

\* C1, as the specification states it: whenever MAX_CONSECUTIVE_FAILURES serial
\* reads in a row have ended in a timeout, no read in between having ended on its
\* stop marker, the process terminates.
C1_TimeoutsTripBreaker == (timeout_run = MAX_CONSECUTIVE_FAILURES) ~> Terminated

\* the run of timeouts is complete, the loop is at its check, and the counter,
\* reset by the write before each read, is nowhere near the threshold
C1_TimeoutsCounterLow ==
    /\ timeout_run = MAX_CONSECUTIVE_FAILURES
    /\ pc = "loop"
    /\ consecutive_serial_failures <= 1

\* C2, as the specification states it: once the polling loop has started, the
\* process terminates only because the failure counter reached its threshold or
\* because the operator interrupted it; no fault raised while decoding, applying
\* the policy, aggregating or publishing escapes a polling cycle.
C2_NoFaultEscapes ==
    (Terminated /\ pc # "exit_init") => pc \in {"exit_threshold", "exit_interrupt"}

\* the process is gone with the counter below the threshold and nobody having
\* interrupted it: the port was not even closed
C2_FaultEscaped ==
    /\ pc = "crashed"
    /\ ser_open
    /\ consecutive_serial_failures < MAX_CONSECUTIVE_FAILURES

\* C3, as the code has it: when the check at the top of a polling cycle finds the
\* failure counter at or above the threshold, no further serial command is written
\* and no further message is published: the link is closed and the process
\* terminates, for any number of configured addresses (an interrupt of the
\* operator arriving at that moment ends the process the same way).
C3_ThresholdAtCheck ==
    [][(pc = "loop" /\ consecutive_serial_failures >= MAX_CONSECUTIVE_FAILURES)
          => /\ pc' \in {"exit_threshold", "exit_interrupt"}
             /\ ~ser_open'
             /\ written' = written
             /\ published' = published]_vars

\* the check has found the counter at the threshold and ended the process
C3_ThresholdExitTaken ==
    /\ pc = "exit_threshold"
    /\ ~ser_open
    /\ consecutive_serial_failures >= MAX_CONSECUTIVE_FAILURES

\* C3, as the specification states it: once the failure counter has reached the
\* threshold, at any point of a cycle, no further serial command is written and
\* no further message is published.
C3_ThresholdAnywhere ==
    [][consecutive_serial_failures >= MAX_CONSECUTIVE_FAILURES
          => (written' = written /\ published' = published)]_vars

----------------------------------------------------------------------------
(* Properties of the unit record, on the sampled calls                      *)

\* parse_battery_data has returned a record
UnitReturned == pc = "unit_return" /\ ~IsNone(data)

\* the cell voltages (mV) of the bat response the call has read
CellVoltagesRead ==
    IF stimulus.x.bat_write
      THEN { stimulus.x.bat_lines[i].mv :
               i \in { j \in DOMAIN stimulus.x.bat_lines :
                         stimulus.x.bat_lines[j].t = "cell" } }
      ELSE {}

\* C4, as the specification states it: every unit record built from a bat
\* response with a cell voltage above 3.65 V has Info.MaxChargeCurrent = 0,
\* Io.AllowToCharge = 0 and Alarms.HighVoltage = 1, whatever Soc and temperature.
C4_CellVoltageChargeClamp ==
    (UnitReturned /\ \E v \in CellVoltagesRead : v > 3650)
       => /\ data.Info.MaxChargeCurrent = 0
          /\ data.Io.AllowToCharge = 0
          /\ data.Alarms.HighVoltage = 1

\* a cell is above 3.65 V, charging is blocked and the alarm is up, and the record
\* still offers 40 A of charge current
C4_ChargeCurrentKept ==
    /\ UnitReturned
    /\ \E v \in CellVoltagesRead : v > 3650
    /\ data.Io.AllowToCharge = 0
    /\ data.Alarms.HighVoltage = 1
    /\ data.Info.MaxChargeCurrent = 40000

\* the pwr write failed or the pwr read yielded no lines
PwrUnanswered == ~stimulus.x.pwr_write \/ stimulus.x.pwr_lines = <<>>

\* the record passed to the aggregator for the address
RecordPassedOn == battery_data_list[Len(battery_data_list)]

\* C5, as the specification states it: for an address whose pwr write fails or
\* whose pwr read yields no lines, the record published and passed to the
\* aggregator is the synthetic one (AllowToCharge = 0, AllowToDischarge = 0,
\* NrOfModulesOffline = 1, LowSoc = 1); an address whose pwr read yields at
\* least one line is never replaced by the synthetic record.
C5_OfflineSynthesis ==
    pc = "unit_return"
       => /\ published[Len(published)].payload = RecordPassedOn
          /\ PwrUnanswered
                => /\ RecordPassedOn.Io.AllowToCharge = 0
                   /\ RecordPassedOn.Io.AllowToDischarge = 0
                   /\ RecordPassedOn.System.NrOfModulesOffline = 1
                   /\ RecordPassedOn.Alarms.LowSoc = 1
          /\ ~PwrUnanswered => RecordPassedOn # offline_data(CurrentLimits)

\* the pwr read yielded lines and the synthetic record stands in for the unit
C5_AnsweredYetSynthetic ==
    /\ pc = "unit_return"
    /\ ~PwrUnanswered
    /\ RecordPassedOn = offline_data(CurrentLimits)

\* the record has a parsed Temperature and a parsed Soc
TemperatureAndSocParsed ==
    UnitReturned /\ "Temperature" \in DOMAIN data.Dc /\ "Soc" \in DOMAIN data

\* the charge current the Soc gives (mA): 7 A above 90 %, else 0.8 of the learned
\* ceiling to a tenth of an ampere
SocChargeCurrent ==
    IF data.Soc > 90 THEN 7000
    ELSE 100 * RoundDiv(Get(global_info, "MaxChargeCurrent", MAX_CHARGE_CURRENT) * 8, 1000)

\* the three bands in which the clamp acts (Dc.Temperature in tenths of a degree)
ClampBands ==
    /\ data.Dc.Temperature < 0
          => /\ data.Info.MaxChargeCurrent = 0
             /\ data.Io.AllowToCharge = 0
             /\ data.Alarms.LowChargeTemperature = 1
    /\ (0 <= data.Dc.Temperature /\ data.Dc.Temperature < 50)
          => data.Info.MaxChargeCurrent = Min2(SocChargeCurrent, 10000)
    /\ data.Dc.Temperature > 450
          => /\ data.Info.MaxChargeCurrent = Min2(SocChargeCurrent, 10000)
             /\ data.Alarms.HighChargeTemperature = 1

\* C6, as the code has it: for every unit record with a parsed Temperature T and
\* Soc (base = the Soc-derived charge current): T < 0 gives MaxChargeCurrent = 0,
\* AllowToCharge = 0, LowChargeTemperature = 1; 0 <= T < 5 gives
\* MaxChargeCurrent = min(base, 10); T > 45 gives MaxChargeCurrent = min(base, 10)
\* and HighChargeTemperature = 1; 5 <= T <= 45 leaves MaxChargeCurrent = base and
\* both charge-temperature alarms at 0, and AllowToCharge = 1 unless a cell
\* voltage above 3.65 V has been read, which sets it to 0.
C6_TemperatureClampCellAside ==
    TemperatureAndSocParsed
       => /\ ClampBands
          /\ (50 <= data.Dc.Temperature /\ data.Dc.Temperature <= 450)
                => /\ data.Info.MaxChargeCurrent = SocChargeCurrent
                   /\ data.Alarms.LowChargeTemperature = 0
                   /\ data.Alarms.HighChargeTemperature = 0
                   /\ data.Io.AllowToCharge =
                         (IF \E v \in CellVoltagesRead : v > 3650 THEN 0 ELSE 1)

\* at 5 degrees the clamp has left the base current alone, and a cell above
\* 3.65 V has blocked charging
C6_MidBandCellHigh ==
    /\ TemperatureAndSocParsed
    /\ data.Dc.Temperature = 50
    /\ data.Info.MaxChargeCurrent = 40000
    /\ data.Io.AllowToCharge = 0
    /\ data.Alarms.LowChargeTemperature = 0

\* C6, as the specification states it: 5 <= T <= 45 leaves AllowToCharge = 1.
C6_TemperatureClampAsStated ==
    TemperatureAndSocParsed
       => /\ ClampBands
          /\ (50 <= data.Dc.Temperature /\ data.Dc.Temperature <= 450)
                => /\ data.Info.MaxChargeCurrent = SocChargeCurrent
                   /\ data.Io.AllowToCharge = 1
                   /\ data.Alarms.LowChargeTemperature = 0
                   /\ data.Alarms.HighChargeTemperature = 0

\* the discharge ceiling learned at start-up (mA)
LearnedDischargeLimit == Get(global_info, "MaxDischargeCurrent", MAX_DISCHARGE_CURRENT)

\* C7: for every unit record, Soc < 5 gives MaxDischargeCurrent = 0,
\* AllowToDischarge = 0, LowSoc = 1; 5 <= Soc < 10 gives MaxDischargeCurrent =
\* min(learned limit, 10) and LowSoc = 1; any cell voltage below 2.5 V gives
\* AllowToDischarge = 0 and LowCellVoltage = 1; with Soc >= 10 and no cell below
\* 2.5 V the record keeps MaxDischargeCurrent = learned limit and
\* AllowToDischarge = 1.
C7_DischargePolicy ==
    UnitReturned
       => /\ ("Soc" \in DOMAIN data /\ data.Soc < 5)
                => /\ data.Info.MaxDischargeCurrent = 0
                   /\ data.Io.AllowToDischarge = 0
                   /\ data.Alarms.LowSoc = 1
          /\ ("Soc" \in DOMAIN data /\ 5 <= data.Soc /\ data.Soc < 10)
                => /\ data.Info.MaxDischargeCurrent = Min2(LearnedDischargeLimit, 10000)
                   /\ data.Alarms.LowSoc = 1
          /\ (\E v \in CellVoltagesRead : v < 2500)
                => /\ data.Io.AllowToDischarge = 0
                   /\ data.Alarms.LowCellVoltage = 1
          /\ ("Soc" \in DOMAIN data /\ data.Soc >= 10
                 /\ \A v \in CellVoltagesRead : v >= 2500)
                => /\ data.Info.MaxDischargeCurrent = LearnedDischargeLimit
                   /\ data.Io.AllowToDischarge = 1

\* Soc 9 % with a ceiling above 10 A and a cell at 2.4 V: the current is cut to
\* 10 A and the discharge is blocked
C7_LowSocLowCell ==
    /\ UnitReturned
    /\ "Soc" \in DOMAIN data /\ data.Soc = 9
    /\ LearnedDischargeLimit > 10000
    /\ \E v \in CellVoltagesRead : v < 2500
    /\ data.Info.MaxDischargeCurrent = 10000
    /\ data.Io.AllowToDischarge = 0

----------------------------------------------------------------------------
(* Properties of the consolidated record, on the cycles of SpecFleet        *)

\* create_consolidated_view has returned the consolidated record
FleetDone == pc = "fleet_done"

SetMin(S) == CHOOSE x \in S : \A y \in S : x <= y

SetMax(S) == CHOOSE x \in S : \A y \in S : y <= x

\* the least per-unit limits of the cycle (mA), synthetic records included
LeastChargeLimit ==
    SetMin({ battery_data_list[i].Info.MaxChargeCurrent : i \in DOMAIN battery_data_list })

LeastDischargeLimit ==
    SetMin({ battery_data_list[i].Info.MaxDischargeCurrent : i \in DOMAIN battery_data_list })

\* v (mA) is a whole number of tenths of an ampere and the nearest one to exact
NearestTenth(v, exact) == v % 100 = 0 /\ v - exact <= 50 /\ exact - v <= 50

SomeUnitOffline ==
    \E i \in DOMAIN battery_data_list : battery_data_list[i].System.NrOfModulesOffline = 1

\* C8, as the code has it: the consolidated Info.MaxChargeCurrent is (the least
\* per-unit MaxChargeCurrent over all records of the cycle, synthetic ones
\* included) times the number of records, rounded to a tenth of an ampere, and
\* Info.MaxDischargeCurrent likewise; with an offline unit in the cycle both are 0.
C8_FleetLimitsToATenth ==
    FleetDone
       => /\ NearestTenth(consolidated.Info.MaxChargeCurrent,
                          LeastChargeLimit * Len(battery_data_list))
          /\ NearestTenth(consolidated.Info.MaxDischargeCurrent,
                          LeastDischargeLimit * Len(battery_data_list))
          /\ SomeUnitOffline
                => /\ consolidated.Info.MaxChargeCurrent = 0
                   /\ consolidated.Info.MaxDischargeCurrent = 0

\* every unit is online with a ceiling of 12.345 A, and the fleet limit is not the
\* exact product
C8_ProductRounded ==
    /\ FleetDone
    /\ ~SomeUnitOffline
    /\ LeastChargeLimit = 12345
    /\ consolidated.Info.MaxChargeCurrent > 0
    /\ consolidated.Info.MaxChargeCurrent # LeastChargeLimit * Len(battery_data_list)

\* C8, as the specification states it: the consolidated limits equal the least
\* per-unit limit times the number of records.
C8_FleetLimitsExact ==
    FleetDone
       => /\ consolidated.Info.MaxChargeCurrent =
                LeastChargeLimit * Len(battery_data_list)
          /\ consolidated.Info.MaxDischargeCurrent =
                LeastDischargeLimit * Len(battery_data_list)

\* the greatest value of an alarm flag over the records of the cycle
GreatestAlarm(a) ==
    SetMax({ battery_data_list[i].Alarms[a] : i \in DOMAIN battery_data_list })

\* every (cell key, voltage) some record of the cycle reports
CellsReported ==
    UNION { { battery_data_list[i].Voltages[j] : j \in DOMAIN battery_data_list[i].Voltages } :
              i \in DOMAIN battery_data_list }

\* the cell voltages of the fleet are more than 0.1 V apart
FleetSpreadWide ==
    \E lo \in CellsReported, hi \in CellsReported : hi[2] - lo[2] > 100

IoFlagsLeast ==
    /\ consolidated.Io.AllowToCharge =
          SetMin({ battery_data_list[i].Io.AllowToCharge : i \in DOMAIN battery_data_list })
    /\ consolidated.Io.AllowToDischarge =
          SetMin({ battery_data_list[i].Io.AllowToDischarge : i \in DOMAIN battery_data_list })

\* C9, as the code has it: in every consolidated record each alarm flag but
\* CellImbalance equals the greatest value of that flag over all records of the
\* cycle; CellImbalance is that greatest value, or 1 when the cell voltages of
\* the fleet are more than 0.1 V apart; Io.AllowToCharge and Io.AllowToDischarge
\* each equal the least value of that flag over all records of the cycle.
C9_FlagsWithFleetImbalance ==
    FleetDone
       => /\ \A a \in AlarmNames \ {"CellImbalance"} :
                consolidated.Alarms[a] = GreatestAlarm(a)
          /\ consolidated.Alarms.CellImbalance =
                (IF FleetSpreadWide THEN 1 ELSE GreatestAlarm("CellImbalance"))
          /\ IoFlagsLeast

\* no unit has raised CellImbalance, the fleet has; another alarm comes from a unit
C9_FleetImbalanceOnly ==
    /\ FleetDone
    /\ GreatestAlarm("CellImbalance") = 0
    /\ consolidated.Alarms.CellImbalance = 1
    /\ consolidated.Alarms.LowSoc = 1
    /\ consolidated.Io.AllowToCharge = 0

\* C9, as the specification states it: each of the 13 alarm flags equals the
\* greatest value of that flag over all records of the cycle.
C9_FlagsAsStated ==
    FleetDone
       => /\ \A a \in AlarmNames : consolidated.Alarms[a] = GreatestAlarm(a)
          /\ IoFlagsLeast

\* C10: in every cycle in which some unit reports cell voltages, the consolidated
\* System.MinCellVoltage is at most every cell voltage of every unit record, every
\* such voltage is at most System.MaxCellVoltage, and both extremes are values a
\* unit reported, tagged with the key of the cell that reported them.
C10_FleetCellExtremes ==
    (FleetDone /\ CellsReported # {})
       => /\ \A kv \in CellsReported :
                /\ consolidated.System.MinCellVoltage <= kv[2]
                /\ kv[2] <= consolidated.System.MaxCellVoltage
          /\ <<consolidated.System.MinVoltageCellId,
               consolidated.System.MinCellVoltage>> \in CellsReported
          /\ <<consolidated.System.MaxVoltageCellId,
               consolidated.System.MaxCellVoltage>> \in CellsReported

\* two units report cells, and the extremes of the fleet come from different
\* cell keys and differ
C10_ExtremesApart ==
    /\ FleetDone
    /\ Cardinality({ i \in DOMAIN battery_data_list :
                       battery_data_list[i].Voltages # <<>> }) >= 2
    /\ consolidated.System.MinCellVoltage < consolidated.System.MaxCellVoltage
    /\ consolidated.System.MinVoltageCellId # consolidated.System.MaxVoltageCellId

\* the records of the cycle that carry per-cell temperatures
UnitsWithCellTemperatures ==
    { i \in DOMAIN battery_data_list :
        "MinCellTemperature" \in DOMAIN battery_data_list[i].System }

\* C11, as the specification states it: whenever at least one unit of the cycle
\* reports per-cell readings, the consolidated record carries the fleet minimum
\* and maximum cell temperature, taken over all units' per-cell temperatures and
\* tagged with the owning cell, as it does for the cell voltages.
C11_FleetCellTemperatures ==
    (FleetDone /\ UnitsWithCellTemperatures # {})
       => /\ {"MinCellTemperature", "MinTemperatureCellId",
              "MaxCellTemperature", "MaxTemperatureCellId"}
                \subseteq DOMAIN consolidated.System
          /\ consolidated.System.MinCellTemperature =
                SetMin({ battery_data_list[i].System.MinCellTemperature :
                           i \in UnitsWithCellTemperatures })
          /\ consolidated.System.MaxCellTemperature =
                SetMax({ battery_data_list[i].System.MaxCellTemperature :
                           i \in UnitsWithCellTemperatures })
          /\ \E i \in UnitsWithCellTemperatures :
                /\ battery_data_list[i].System.MinCellTemperature =
                      consolidated.System.MinCellTemperature
                /\ battery_data_list[i].System.MinTemperatureCellId =
                      consolidated.System.MinTemperatureCellId
          /\ \E i \in UnitsWithCellTemperatures :
                /\ battery_data_list[i].System.MaxCellTemperature =
                      consolidated.System.MaxCellTemperature
                /\ battery_data_list[i].System.MaxTemperatureCellId =
                      consolidated.System.MaxTemperatureCellId

\* every unit of the cycle carries cell temperatures, the consolidated record
\* has the extremes of the cell voltages and no cell temperature at all
C11_NoFleetCellTemperature ==
    /\ FleetDone
    /\ UnitsWithCellTemperatures = DOMAIN battery_data_list
    /\ "MinCellVoltage" \in DOMAIN consolidated.System
    /\ "MinCellTemperature" \notin DOMAIN consolidated.System
    /\ "MaxCellTemperature" \notin DOMAIN consolidated.System

----------------------------------------------------------------------------
(* Properties of the link calls, on SpecSerial *)

\* C12: a call of serial_write in which some attempt succeeds returns success and
\* leaves the failure counter at 0, whatever attempts failed before it; a call
\* that exhausts its retries returns failure and has added one to the counter
\* for each failed attempt, WRITE_RETRIES in all.
C12_WriteCountsEachAttempt ==
    /\ pc = "return_true"
         => consolidated.ok /\ consecutive_serial_failures = 0
    /\ pc = "serial_write"
         => consecutive_serial_failures = stimulus.before + attempt
    /\ pc = "return_false"
         => /\ ~consolidated.ok
            /\ consecutive_serial_failures = stimulus.before + WRITE_RETRIES

\* a call entered with the counter at 1 has exhausted its retries: the counter is 3
C12_WriteExhausted ==
    /\ pc = "return_false"
    /\ stimulus.before = 1
    /\ consecutive_serial_failures = 3
    /\ written = <<>>

\* C12, as the specification states it: success leaves the counter at 0, and a
\* call that exhausts its retries increments the counter once for that call.
C12_WriteCountsOncePerCall ==
    /\ pc = "return_true"
         => consolidated.ok /\ consecutive_serial_failures = 0
    /\ pc = "return_false"
         => /\ ~consolidated.ok
            /\ consecutive_serial_failures = stimulus.before + 1

\* C13: after a successful serial write, a serial read that ended on its stop
\* marker, or a successful link initialization, the failure counter is 0 whatever
\* it was on entry; and the counter is never negative.
C13_ResetOnSuccess ==
    /\ pc \in {"return_true", "return_stop", "return_ser"}
         => consecutive_serial_failures = 0
    /\ consecutive_serial_failures >= 0

\* a read entered with the counter at 4 has ended on its stop marker
C13_ReadResetFromFour ==
    /\ pc = "return_stop"
    /\ stimulus.before = 4
    /\ consecutive_serial_failures = 0

\* the completed lines of a stretch of bytes, in arrival order; the bytes after
\* the last "\n" are no line yet
RECURSIVE LinesOf(_, _)
LinesOf(bytes, line_str) ==
    IF bytes = <<>> THEN <<>>
    ELSE IF Head(bytes) = NL
           THEN << Append(line_str, NL) >> \o LinesOf(Tail(bytes), <<>>)
           ELSE LinesOf(Tail(bytes), Append(line_str, Head(bytes)))

\* the least index from `from` on of a line with the marker, 0 when there is none
FirstWith(lines, marker, from) ==
    LET S == { i \in from..Len(lines) : Contains(marker, lines[i]) }
    IN  IF S = {} THEN 0 ELSE CHOOSE i \in S : \A j \in S : i <= j

\* the index of the line at which a read with this start marker begins to collect
FirstCollected(lines, start) ==
    IF start = NoneMarker THEN (IF lines = <<>> THEN 0 ELSE 1)
    ELSE FirstWith(lines, start, 1)

\* the lines that have arrived on the port when the call returns
Arrived == LinesOf(SubSeq(stimulus.wire, 1, data.pos), <<>>)

\* C14: a read whose timeout elapses before the stop condition returns exactly the
\* lines collected so far (none, or a partial batch) and increments the failure
\* counter by one; a read that hits an I/O exception returns the empty batch,
\* whatever it had collected, and increments the failure counter by one.
C14_ReadFailureOutcomes ==
    /\ pc = "return_timeout"
         => /\ consolidated =
                  (LET i == FirstCollected(Arrived, stimulus.start)
                   IN  IF i = 0 THEN <<>> ELSE SubSeq(Arrived, i, Len(Arrived)))
            /\ consecutive_serial_failures = stimulus.before + 1
    /\ pc = "return_error"
         => /\ consolidated = <<>>
            /\ consecutive_serial_failures = stimulus.before + 1

\* the time ran out in the middle of a line, after a line before the start marker
\* and two collected ones
C14_TimeoutMidLine ==
    /\ pc = "return_timeout"
    /\ stimulus.start = EchoMarker
    /\ Len(Arrived) = 3
    /\ Len(consolidated) = 2
    /\ data.line_str # <<>>
    /\ consecutive_serial_failures = stimulus.before + 1

\* C15: the batch of a read that ended on its stop marker is, in arrival order,
\* the completed lines from the first line with the start marker (from the first
\* line when the start marker is the wildcard) up to and including the first
\* line, at or after that one, with the stop marker; no line that arrived before
\* the start marker is in it, and a stop line before the start marker does not
\* end the read.
C15_ReadFraming ==
    pc = "return_stop"
      => LET lines == LinesOf(stimulus.wire, <<>>)
             i == FirstCollected(lines, stimulus.start)
             j == IF i = 0 THEN 0 ELSE FirstWith(lines, stimulus.stop, i)
         IN  /\ i > 0
             /\ j > 0
             /\ consolidated = SubSeq(lines, i, j)
             /\ Len(Arrived) = j

\* the unit sent a stop line, then the start line, a plain line and the stop
\* line: the read returned the last three
C15_StopBeforeStart ==
    /\ pc = "return_stop"
    /\ stimulus.start = EchoMarker
    /\ Contains(stimulus.stop, LinesOf(stimulus.wire, <<>>)[1])
    /\ ~Contains(stimulus.start, LinesOf(stimulus.wire, <<>>)[1])
    /\ Len(consolidated) = 3

----------------------------------------------------------------------------
(* Properties of the start-up and of the polling cycle, on main()           *)

\* C16: initialize_serial runs its sequence at most INIT_ATTEMPTS times and is not
\* entered again once an attempt has succeeded; when every attempt has failed,
\* main exits, and it has written no info, pwr or bat command and published
\* nothing, nor does it afterwards.
C16_InitAtMostThrice ==
    /\ [](pc = "initialize_serial" => attempt < INIT_ATTEMPTS)
    /\ [](pc = "exit_init"
            => /\ attempt = INIT_ATTEMPTS - 1
               /\ written = <<>>
               /\ published = <<>>
               /\ IsNone(consolidated))
    /\ [][pc # "initialize_serial" => pc' # "initialize_serial"]_vars
    /\ [][pc' = "exit_init" => pc = "initialize_serial" /\ attempt = INIT_ATTEMPTS - 1]_vars
    /\ [][pc # "exit_init"]_vars

\* the third attempt has failed and main has left
C16_InitExhausted ==
    /\ pc = "exit_init"
    /\ attempt = INIT_ATTEMPTS - 1
    /\ consecutive_serial_failures = INIT_ATTEMPTS
    /\ written = <<>>
    /\ published = <<>>

\* the learned limits: the two globals and their copies in global_info
LearnedLimits == <<MAX_CHARGE_CURRENT, MAX_DISCHARGE_CURRENT, global_info>>

\* C17: the learned MaxChargeCurrent and MaxDischargeCurrent are at all times at
\* most their configured defaults, no step of the run increases them whatever
\* the info response holds, and no step of a polling cycle changes them: they
\* change during the info exchange of the start-up only.
C17_LearnedLimits ==
    /\ [](/\ MAX_CHARGE_CURRENT <= DEFAULT_MAX_CHARGE_CURRENT
          /\ MAX_DISCHARGE_CURRENT <= DEFAULT_MAX_DISCHARGE_CURRENT
          /\ Get(global_info, "MaxChargeCurrent", MAX_CHARGE_CURRENT)
                = MAX_CHARGE_CURRENT
          /\ Get(global_info, "MaxDischargeCurrent", MAX_DISCHARGE_CURRENT)
                = MAX_DISCHARGE_CURRENT)
    /\ [][/\ MAX_CHARGE_CURRENT' <= MAX_CHARGE_CURRENT
          /\ MAX_DISCHARGE_CURRENT' <= MAX_DISCHARGE_CURRENT]_vars
    /\ [][(LearnedLimits' # LearnedLimits) => (pc = "info_read")]_vars
    /\ [][(pc \in LoopPositions) => (LearnedLimits' = LearnedLimits)]_vars

\* a cycle is under way with both limits learned from the info response, below
\* the defaults
C17_LimitsLearned ==
    /\ pc = "consolidate"
    /\ MAX_CHARGE_CURRENT = 12345
    /\ MAX_DISCHARGE_CURRENT = 12345
    /\ MAX_CHARGE_CURRENT < DEFAULT_MAX_CHARGE_CURRENT
    /\ Len(battery_data_list) = NumAddresses

\* the topics of the messages published so far in the cycle
PublishedTopics == [i \in DOMAIN published |-> published[i].topic]

\* the topics of the per-unit messages of the first n addresses, in address order
UnitTopics(n) == [i \in 1..n |-> <<"battery", BATTERY_ADDRESSES[i]>>]

\* C18, as the specification states it: in every polling cycle that runs with
\* publishing active, exactly one per-unit message is published for each
\* configured address, the unit's record or the offline record, in address
\* order, and then exactly one consolidated message; a publish, failed or not,
\* leaves the failure counter alone and is not repeated.
C18_PublishingPerCycle ==
    /\ [](MQTT_ACTIVE /\ pc \in {"pwr_write", "pwr_read", "bat_write", "bat_read",
                                 "unit_done"}
            => PublishedTopics = UnitTopics(address - 1))
    /\ [](MQTT_ACTIVE /\ pc = "consolidate"
            => /\ PublishedTopics = UnitTopics(NumAddresses)
               /\ \A i \in 1..NumAddresses :
                     published[i].payload = battery_data_list[i])
    /\ [][(MQTT_ACTIVE /\ pc = "consolidate" /\ pc' # "exit_interrupt")
            => /\ pc' = "loop"
               /\ PublishedTopics' = Append(UnitTopics(NumAddresses), <<"pylon", 0>>)
               /\ published'[NumAddresses + 1].payload = consolidated']_vars
    /\ [][(published' # published)
            => (consecutive_serial_failures' = consecutive_serial_failures)]_vars

\* every per-unit message of the cycle is out, one of them refused by the sink, and
\* the cycle has ended in create_consolidated_view without a consolidated message
C18_NoConsolidatedMessage ==
    /\ pc = "crashed"
    /\ MQTT_ACTIVE
    /\ PublishedTopics = UnitTopics(NumAddresses)
    /\ \E i \in DOMAIN published : ~published[i].ok

----------------------------------------------------------------------------
(* Properties of the unit record, on the sampled calls: the base rule of    *)
(* the charge current, and the balance flags                                *)

\* the record has a parsed Soc, its temperature, if it has one, is in the band
\* 5..45 degrees where no clamp acts, and no cell above 3.65 V has been read
SocParsedNoClamp ==
    /\ UnitReturned
    /\ "Soc" \in DOMAIN data
    /\ "Temperature" \in DOMAIN data.Dc
          => (50 <= data.Dc.Temperature /\ data.Dc.Temperature <= 450)
    /\ \A v \in CellVoltagesRead : v <= 3650

\* the charge ceiling learned at start-up (mA)
LearnedChargeLimit == Get(global_info, "MaxChargeCurrent", MAX_CHARGE_CURRENT)

\* C19: for every unit record with a parsed Soc and no temperature or cell-voltage
\* clamp active, Info.MaxChargeCurrent is 7.0 A when Soc > 90, and 0.8 times the
\* learned MaxChargeCurrent rounded to a tenth of an ampere when Soc <= 90.
C19_ChargeBaseToATenth ==
    SocParsedNoClamp
       => data.Info.MaxChargeCurrent =
             (IF data.Soc > 90 THEN 7000
              ELSE 100 * RoundDiv(LearnedChargeLimit * 8, 1000))

\* at Soc 90 with 12.345 A learned the record offers 9.9 A, 0.8 times the limit
\* being 9.876 A
C19_BaseRounded ==
    /\ SocParsedNoClamp
    /\ data.Soc = 90
    /\ LearnedChargeLimit = 12345
    /\ data.Info.MaxChargeCurrent = 9900

\* C19, as the specification states it: Info.MaxChargeCurrent = 7.0 when Soc > 90
\* and 0.8 times the learned MaxChargeCurrent when Soc <= 90.
C19_ChargeBaseExact ==
    SocParsedNoClamp
       => IF data.Soc > 90
            THEN data.Info.MaxChargeCurrent = 7000
            ELSE 10 * data.Info.MaxChargeCurrent = 8 * LearnedChargeLimit

\* the cells the record reports: the keys of its Voltages
CellsOfRecord == { data.Voltages[i][1] : i \in DOMAIN data.Voltages }

\* the cells whose balance flag is 1 in the record
CellsBalancing == { c \in DOMAIN data.Balances : data.Balances[c] = 1 }

\* max voltage - min voltage > 0.05 V and max voltage > 3.4 V, on the cell
\* voltages read (mV)
BalancingDue ==
    /\ CellVoltagesRead # {}
    /\ SetMax(CellVoltagesRead) - SetMin(CellVoltagesRead) > 50
    /\ SetMax(CellVoltagesRead) > 3400

\* C20, as the specification states it: in every unit record at most one cell has
\* its balance flag at 1; a cell's flag is 1 only if it is the unit's
\* maximum-voltage cell, max voltage - min voltage > 0.05 V and max voltage >
\* 3.4 V; when that condition does not hold, every cell the unit reported has
\* its balance flag at 0 in the record.
C20_Balancing ==
    UnitReturned
       => /\ Cardinality(CellsBalancing) <= 1
          /\ \A c \in CellsBalancing :
                /\ BalancingDue
                /\ \E i \in DOMAIN stimulus.x.bat_lines :
                      /\ stimulus.x.bat_lines[i].t = "cell"
                      /\ stimulus.x.bat_lines[i].idx + 1 = c
                      /\ stimulus.x.bat_lines[i].mv = SetMax(CellVoltagesRead)
          /\ ~BalancingDue
                => \A c \in CellsOfRecord :
                      c \in DOMAIN data.Balances /\ data.Balances[c] = 0

\* the unit reported Cell1 and Cell3, 20 mV apart: the record has the flags of
\* Cell1 and Cell2 at 0 and no flag for Cell3
C20_ReportedCellWithoutFlag ==
    /\ UnitReturned
    /\ ~BalancingDue
    /\ CellsOfRecord = {1, 3}
    /\ DOMAIN data.Balances = {1, 2}
    /\ \A c \in DOMAIN data.Balances : data.Balances[c] = 0

----------------------------------------------------------------------------
(* Properties of the registers, on the sampled calls with registers         *)

\* the value of a register in the pwr response read, 0 when the response has no
\* such line
RegisterRead(k) ==
    LET S == { i \in DOMAIN stimulus.x.pwr_lines : stimulus.x.pwr_lines[i].key = k }
    IN  IF S = {} THEN 0 ELSE stimulus.x.pwr_lines[CHOOSE i \in S : TRUE].tok.n

\* the entries of the two tables other than "No events", and those among the
\* first that are of class info
PowerTableEntries == { 2^k : k \in 0..30 }

PowerTableInfo == {4, 1024, 2097152, 4194304, 8388608}

SysTableEntries == { 2^k : k \in 0..11 }

\* the alarm fields the three registers read raise
AlarmsOfRegisters ==
    LET b == RegisterRead("Bat Events")
        p == RegisterRead("Power Events")
        f == RegisterRead("System Fault")
    IN  (IF b \in PowerTableEntries \ PowerTableInfo THEN {"CellImbalance"} ELSE {})
        \cup (IF p \in {1, 2} THEN {"HighVoltage"}
              ELSE IF p = 8 THEN {"LowVoltage"}
              ELSE IF p = 16 THEN {"LowCellVoltage"}
              ELSE IF p \in {256, 512} THEN {"HighTemperature"}
              ELSE IF p \in {2048, 4096} THEN {"LowTemperature"}
              ELSE IF p = 32768 THEN {"LowSoc"}
              ELSE IF p \in {131072, 524288} THEN {"HighDischargeCurrent"}
              ELSE IF p \in {262144, 1048576} THEN {"HighChargeCurrent"}
              ELSE IF p = 65536 THEN {"FuseBlown"}
              ELSE {})
        \cup (IF f \in SysTableEntries THEN {"FuseBlown"} ELSE {})

\* the record of the same call with the three register lines taken out of the
\* pwr response
RecordWithoutRegisters ==
    parse_battery_data(
        [stimulus.x EXCEPT !.pwr_lines =
            SelectSeq(@, LAMBDA l : l.key \notin {"Bat Events", "Power Events",
                                                  "System Fault"})],
        stimulus.g)

\* C21: a Bat Events, Power Events or System Fault value changes an alarm field
\* only when it equals one entry of its table: the record is the record of the
\* same response without the registers, with the alarms of the matched entries
\* at 1; a value of two or more bits, or any other value not in the table,
\* changes nothing, and no alarm the Soc, temperature or cell-voltage policy has
\* set to 1 is lowered.
C21_RegistersByExactMatch ==
    UnitReturned
       => data = [RecordWithoutRegisters EXCEPT !.Alarms =
                     [a \in AlarmNames |->
                        IF a \in AlarmsOfRegisters THEN 1 ELSE @[a]]]

\* the three registers read have two bits each, the record has Soc 3 and 3.7 V on
\* a cell: its alarms are those of the policy, LowSoc and HighVoltage among them
C21_TwoBitsNoAlarm ==
    /\ UnitReturned
    /\ RegisterRead("Bat Events") = 3
    /\ RegisterRead("Power Events") = 24
    /\ RegisterRead("System Fault") = 3
    /\ data.Alarms = RecordWithoutRegisters.Alarms
    /\ data.Alarms.LowSoc = 1
    /\ data.Alarms.HighVoltage = 1
    /\ data.Alarms.LowVoltage = 0
    /\ data.Alarms.FuseBlown = 0

----------------------------------------------------------------------------
(* Properties of the unit record, on the sampled calls: malformed lines     *)

\* s without its i-th element
WithoutLine(s, i) == SubSeq(s, 1, i - 1) \o SubSeq(s, i + 1, Len(s))

\* the pwr lines read whose value is no number: a field line with a token that
\* is not a numeral
MalformedPwrLines ==
    { i \in DOMAIN stimulus.x.pwr_lines :
        /\ stimulus.x.pwr_lines[i].key # ""
        /\ stimulus.x.pwr_lines[i].tok.t \in {"bad", "nan"} }

\* the bat lines read that are no cell line, the header and the closing line
\* aside
MalformedBatLines ==
    { i \in DOMAIN stimulus.x.bat_lines :
        /\ 1 < i /\ i < Len(stimulus.x.bat_lines)
        /\ stimulus.x.bat_lines[i].t = "skip" }

\* the field of the record a pwr line sets
FieldOfKey(k) ==
    IF k = "Coulomb" THEN "Soc"
    ELSE IF k = "Total Coulomb" THEN "InstalledCapacity"
    ELSE k

\* C22, as the specification states it: for every pwr or bat batch read, a record
\* is produced for the unit, and a malformed line changes only its own field:
\* the record is the record built from the batch without that line, and the
\* field the line would have set is absent from it.
C22_LineFaultsIsolated ==
    (pc = "unit_return" /\ ~PwrUnanswered)
       => /\ ~IsNone(data)
          /\ \A i \in MalformedPwrLines :
                /\ data = parse_battery_data(
                             [stimulus.x EXCEPT !.pwr_lines = WithoutLine(@, i)],
                             stimulus.g)
                /\ FieldOfKey(stimulus.x.pwr_lines[i].key) \notin DOMAIN data
                /\ FieldOfKey(stimulus.x.pwr_lines[i].key) \notin DOMAIN data.Dc
          /\ stimulus.x.bat_write
                => \A i \in MalformedBatLines :
                      data = parse_battery_data(
                                [stimulus.x EXCEPT !.bat_lines = WithoutLine(@, i)],
                                stimulus.g)

\* the pwr response had Current, Coulomb and a Total Coulomb that is no number:
\* no record came back for the unit, and one would have without that line
C22_RecordAborted ==
    /\ pc = "unit_return"
    /\ ~PwrUnanswered
    /\ IsNone(data)
    /\ \E i \in MalformedPwrLines :
          /\ stimulus.x.pwr_lines[i].key = "Total Coulomb"
          /\ ~IsNone(parse_battery_data(
                        [stimulus.x EXCEPT !.pwr_lines = WithoutLine(@, i)],
                        stimulus.g))

----------------------------------------------------------------------------
(* Properties of the commands and of the counter, on main()                 *)

\* the positions of a cycle at which a unit is being polled
PollingPositions == {"pwr_write", "pwr_read", "bat_write", "bat_read", "unit_done"}

\* C23: in every cycle the addresses are polled one after another in configured
\* order; for each address pwr is written first, and bat is written only after
\* the pwr read of that address returned at least one line; no command for a
\* later address is written before the exchange of the current one has ended,
\* and no info command is written during polling.
C23_CommandOrder ==
    /\ [](pc \in PollingPositions \cup {"consolidate"}
            => /\ \A i \in DOMAIN written :
                    /\ written[i][1] \in {"pwr", "bat"}
                    /\ written[i][2] <= BATTERY_ADDRESSES[address]
                    /\ written[i][1] = "bat"
                          => i > 1 /\ written[i - 1] = <<"pwr", written[i][2]>>
               /\ \A i, j \in DOMAIN written :
                    (i < j /\ written[i][1] = "pwr" /\ written[j][1] = "pwr")
                       => written[i][2] < written[j][2]
               /\ Len(battery_data_list) =
                     (IF pc = "consolidate" THEN address ELSE address - 1)
               /\ pc = "pwr_write"
                     => \A i \in DOMAIN written :
                           written[i][2] < BATTERY_ADDRESSES[address])
    /\ [][(pc' = "bat_write" /\ pc # "bat_write")
            => (pc = "pwr_read" /\ ~IsNone(data') /\ address' = address)]_vars
    /\ [][(written' # written /\ written' # <<>>)
            => \/ /\ pc = "pwr_write"
                  /\ written' = Append(written, <<"pwr", BATTERY_ADDRESSES[address]>>)
               \/ /\ pc = "bat_write"
                  /\ ~IsNone(data)
                  /\ written' = Append(written, <<"bat", BATTERY_ADDRESSES[address]>>)
               \/ /\ pc = "get_max_currents"
                  /\ written' = Append(written, <<"info", BATTERY_ADDRESSES[address]>>)]_vars

\* the last address is done: the first address had its pwr and no bat, the others
\* had pwr and then bat
C23_FirstUnitWithoutBat ==
    /\ pc = "consolidate"
    /\ written = <<<<"pwr", 1>>>>
                   \o Concat([i \in 1..(NumAddresses - 1) |->
                                 <<<<"pwr", i + 1>>, <<"bat", i + 1>>>>])

\* C24: in a run in which every serial write succeeds on its first attempt, the
\* failure counter is at most 1 wherever the loop compares it with the
\* threshold, however many reads have timed out, so that the comparison never
\* finds the threshold reached and the cycle starts.
C24_CounterAtMostOneAtCheck ==
    pc = "loop"
       => /\ consecutive_serial_failures <= 1
          /\ consecutive_serial_failures < MAX_CONSECUTIVE_FAILURES
          /\ ENABLED StartCycle

\* the loop is at its check after a cycle in which pwr and bat were written for
\* every address, the last ten reads have timed out, and the counter is 1
C24_TenTimeoutsCounterOne ==
    /\ pc = "loop"
    /\ timeout_run = MAX_CONSECUTIVE_FAILURES
    /\ Len(written) = 2 * NumAddresses
    /\ consecutive_serial_failures = 1

\* the ceiling parse_battery_data reads: global_info.get("MaxChargeCurrent",
\* MAX_CHARGE_CURRENT), in mA
ChargeCeiling == Get(global_info, "MaxChargeCurrent", MAX_CHARGE_CURRENT)

\* C25, as the specification states it: the Info.MaxChargeCurrent of every unit
\* record, the offline record included, is at most the learned fleet
\* MaxChargeCurrent ceiling, whatever the ceiling is.
C25_ChargeLimitBelowCeiling ==
    pc = "unit_return"
       => \A i \in DOMAIN battery_data_list :
             battery_data_list[i].Info.MaxChargeCurrent <= ChargeCeiling

\* the learned ceiling is 5 A, the unit reports a Soc above 90 %, and its record
\* allows 7 A of charge current
C25_SevenAmpsOverCeiling ==
    /\ UnitReturned
    /\ ChargeCeiling = 5000
    /\ "Soc" \in DOMAIN data
    /\ data.Soc > 90
    /\ data.Info.MaxChargeCurrent = 7000

\* the positions of the cycle's list that hold the offline record main() puts in
\* the place of a unit that returned nothing, and those that hold a unit's record
OfflineRecords ==
    { i \in DOMAIN battery_data_list : battery_data_list[i].System.NrOfModulesOffline = 1 }

OnlineRecords ==
    { i \in DOMAIN battery_data_list : battery_data_list[i].System.NrOfModulesOnline = 1 }

\* C26, as the specification states it: in the consolidated record of a cycle,
\* System.NrOfModulesOffline is the number of offline records of the cycle,
\* System.NrOfModulesOnline is the number of units that returned a record, and
\* the two add up to the number of configured addresses.
C26_ModuleCounts ==
    (pc = "fleet_done" /\ ~IsNone(consolidated))
       => /\ consolidated.System.NrOfModulesOffline = Cardinality(OfflineRecords)
          /\ consolidated.System.NrOfModulesOnline = Cardinality(OnlineRecords)
          /\ consolidated.System.NrOfModulesOnline + consolidated.System.NrOfModulesOffline
                = Len(BATTERY_ADDRESSES)

\* the first unit returned nothing and the others a record: the consolidated
\* record counts every address as online and none as offline
C26_OfflineUnitCountedOnline ==
    /\ pc = "fleet_done"
    /\ ~IsNone(consolidated)
    /\ OfflineRecords = {1}
    /\ OnlineRecords = 2..NumAddresses
    /\ consolidated.System.NrOfModulesOnline = NumAddresses
    /\ consolidated.System.NrOfModulesOffline = 0

====
